---- MODULE Spec2Model ----
(***************************************************************************)
(* Model of the real-time speech-to-knowledge-graph server                 *)
(* (servers/api): the graph state manager (graph_state.py), the streaming  *)
(* LLM-output parser (gcp/vertex_ai.py) and the extraction worker          *)
(* (websocket.py).                                                         *)
(*                                                                         *)
(* Strings are sequences of one-character strings so that normalisation,   *)
(* containment and edit distance are computed on characters as the code    *)
(* computes them.                                                          *)
(***************************************************************************)
EXTENDS Integers, Sequences, FiniteSets, TLC

\* ------------------------------------------------------------------------
\* Bounds of the model
\* ------------------------------------------------------------------------
\* number of apply_extraction calls started in one behaviour
MaxCalls == 2

\* ------------------------------------------------------------------------
\* Characters and strings
\* ------------------------------------------------------------------------
Min2(a, b) == IF a <= b THEN a ELSE b
Max2(a, b) == IF a >= b THEN a ELSE b

\* str.lower() on one character
LowerChar(c) ==
    CASE c = "A" -> "a"
      [] c = "B" -> "b"
      [] c = "S" -> "s"
      [] OTHER -> c

\* characters outside the class [\w가-힣]: whitespace and punctuation
NonWordChars == {" ", ".", "!", "-"}
WhitespaceChars == {" "}

IsWordChar(c) == c \notin NonWordChars

lower(s) == [i \in 1..Len(s) |-> LowerChar(s[i])]

RECURSIVE lstrip(_)
lstrip(s) ==
    IF s # <<>> /\ Head(s) \in WhitespaceChars THEN lstrip(Tail(s)) ELSE s

RECURSIVE rstrip(_)
rstrip(s) ==
    IF s # <<>> /\ s[Len(s)] \in WhitespaceChars
    THEN rstrip(SubSeq(s, 1, Len(s) - 1))
    ELSE s

strip(s) == rstrip(lstrip(s))

\* `a in b` for Python strings: a occurs in b as a contiguous substring
IsSubstring(a, b) ==
    \E k \in 0..(Len(b) - Len(a)) : SubSeq(b, k + 1, k + Len(a)) = a

\* re.sub(r"[^\w가-힣]", "", label.lower())
_normalize_label(label) == SelectSeq(lower(label), IsWordChar)

\* re.sub(r"[^\w가-힣]", "_", relation.lower())
_normalize_relation(relation) ==
    [i \in 1..Len(relation) |->
        IF IsWordChar(LowerChar(relation[i])) THEN LowerChar(relation[i]) ELSE "_"]

\* one row of the Levenshtein table: dp[i][0..n] from dp[i-1][0..n]
\* (rows are sequences, column j is held at index j+1)
RECURSIVE LevRow(_, _, _, _, _)
LevRow(s1, s2, i, prev, acc) ==
    LET j == Len(acc) IN
    IF j > Len(s2) THEN acc
    ELSE LET v == IF s1[i] = s2[j]
                  THEN prev[j]
                  ELSE Min2(prev[j + 1], Min2(acc[j], prev[j])) + 1
         IN LevRow(s1, s2, i, prev, Append(acc, v))

RECURSIVE LevRows(_, _, _, _)
LevRows(s1, s2, i, prev) ==
    IF i > Len(s1) THEN prev
    ELSE LevRows(s1, s2, i + 1, LevRow(s1, s2, i, prev, <<i>>))

\* dp[m][n]
EditDistance(s1, s2) ==
    LevRows(s1, s2, 1, [j \in 1..(Len(s2) + 1) |-> j - 1])[Len(s2) + 1]

\* _calculate_similarity returns the float (max_len - dp[m][n]) / max_len, or
\* 0.0 when either string is empty; the quotient is kept as num/den.
_calculate_similarity(s1, s2) ==
    IF s1 = <<>> \/ s2 = <<>>
    THEN [num |-> 0, den |-> 1]
    ELSE LET max_len == Max2(Len(s1), Len(s2))
         IN [num |-> max_len - EditDistance(s1, s2), den |-> max_len]

\* similarity > tenths/10
SimAbove(sim, tenths) == 10 * sim.num > tenths * sim.den

\* ------------------------------------------------------------------------
\* Data model (models.py)
\* ------------------------------------------------------------------------
\* str(uuid.uuid4()): the n-th identifier minted by the process
Uuid(n) == <<"u", ToString(n)>>

GraphEntity(id, label, type, createdAt, updatedAt) ==
    [id |-> id, label |-> label, type |-> type,
     created_at |-> createdAt, updated_at |-> updatedAt]

GraphRelation(id, source, target, relation, createdAt) ==
    [id |-> id, source |-> source, target |-> target,
     relation |-> relation, created_at |-> createdAt]

GraphState(version, entities, relations, lastUpdated) ==
    [version |-> version, entities |-> entities,
     relations |-> relations, last_updated |-> lastUpdated]

GraphDelta(addedEntities, addedRelations, updatedEntities, fromVersion, toVersion) ==
    [added_entities |-> addedEntities, added_relations |-> addedRelations,
     updated_entities |-> updatedEntities,
     removed_entity_ids |-> <<>>, removed_relation_ids |-> <<>>,
     from_version |-> fromVersion, to_version |-> toVersion]

ExtractedEntity(id, label, type) == [id |-> id, label |-> label, type |-> type]

ExtractedRelation(source, target, relation) ==
    [source |-> source, target |-> target, relation |-> relation]

ExtractionResult(entities, relations) ==
    [entities |-> entities, relations |-> relations]

\* "no graph": the value of an absent cache entry / an absent cache key
None == GraphState(-1, <<>>, <<>>, 0)

\* the empty dict
EmptyMap == [k \in {} |-> <<>>]

\* dict.get(key, default)
DictGet(d, key, default) == IF key \in DOMAIN d THEN d[key] ELSE default

\* index of the first element of a sequence among the indexes in S, 0 if none
FirstIn(S) == IF S = {} THEN 0 ELSE CHOOSE i \in S : \A j \in S : i <= j

\* ------------------------------------------------------------------------
\* GraphStateManager (graph_state.py)
\* ------------------------------------------------------------------------
_create_empty_state(now) == GraphState(0, <<>>, <<>>, now)

\* faulty variant of _find_similar_entity: the first entity of the extracted
\* entity's type matches, whatever its label
find_similar_by_type(extracted, existing) ==
    IF _normalize_label(extracted.label) = <<>> THEN 0
    ELSE FirstIn({i \in 1..Len(existing) : existing[i].type = extracted.type})

\* _find_similar_entity returns the matching entity of `existing`; here its
\* index in the list, 0 for None.
_find_similar_entity(extracted, existing) ==
    LET normalized_label == _normalize_label(extracted.label)
        Idx == 1..Len(existing)
        norm(i) == _normalize_label(existing[i].label)
        step1 == {i \in Idx : norm(i) = normalized_label}
        step2 == {i \in Idx :
                     lower(strip(existing[i].label)) = lower(strip(extracted.label))}
        step3 == IF Len(normalized_label) >= 3
                 THEN {i \in Idx :
                          /\ Len(norm(i)) >= 3
                          /\ \/ IsSubstring(norm(i), normalized_label)
                             \/ IsSubstring(normalized_label, norm(i))}
                 ELSE {}
        step4 == {i \in Idx :
                     /\ existing[i].type = extracted.type
                     /\ SimAbove(_calculate_similarity(normalized_label, norm(i)), 7)}
        step5 == {i \in Idx :
                     SimAbove(_calculate_similarity(normalized_label, norm(i)), 9)}
    IN IF normalized_label = <<>> THEN 0
       ELSE IF step1 # {} THEN FirstIn(step1)
       ELSE IF step2 # {} THEN FirstIn(step2)
       ELSE IF step3 # {} THEN FirstIn(step3)
       ELSE IF step4 # {} THEN FirstIn(step4)
       ELSE FirstIn(step5)

\* faulty variant of EntityStep: a matched entity takes the label and the type of the
\* extracted one whenever the labels differ
entity_step_overwrite(acc, extracted, now) ==
    LET idx == _find_similar_entity(extracted, acc.entities) IN
    IF idx # 0
    THEN LET existing == acc.entities[idx]
             updated_entity == GraphEntity(existing.id, extracted.label, extracted.type,
                                           existing.created_at, now)
         IN IF extracted.label # existing.label
            THEN [acc EXCEPT !.id_map = (extracted.id :> existing.id) @@ acc.id_map,
                             !.updated = Append(acc.updated, updated_entity),
                             !.entities = [acc.entities EXCEPT ![idx] = updated_entity]]
            ELSE [acc EXCEPT !.id_map = (extracted.id :> existing.id) @@ acc.id_map]
    ELSE LET new_id == Uuid(acc.uuid + 1)
             new_entity == GraphEntity(new_id, extracted.label, extracted.type, now, now)
         IN [acc EXCEPT !.id_map = (extracted.id :> new_id) @@ acc.id_map,
                        !.added = Append(acc.added, new_entity),
                        !.entities = Append(acc.entities, new_entity),
                        !.uuid = acc.uuid + 1]

\* apply_extraction, step 1 (entities), one iteration of the loop body.
\* acc: entities (the graph's list, updated in place), id_map, added, updated,
\* uuid (identifiers minted so far).
\* idx: what _find_similar_entity returned (line 70)
EntityStepAt(acc, extracted, now, idx) ==
    IF idx # 0
    THEN LET existing == acc.entities[idx]
             updated_entity == GraphEntity(existing.id, extracted.label, existing.type,
                                           existing.created_at, now)
             \* for i, e in enumerate(entities): if e.id == existing.id: replace; break
             at == FirstIn({i \in 1..Len(acc.entities) : acc.entities[i].id = existing.id})
         IN IF Len(extracted.label) > Len(existing.label)
            THEN [acc EXCEPT !.id_map = (extracted.id :> existing.id) @@ acc.id_map,
                             !.updated = Append(acc.updated, updated_entity),
                             !.entities = [acc.entities EXCEPT ![at] = updated_entity]]
            ELSE [acc EXCEPT !.id_map = (extracted.id :> existing.id) @@ acc.id_map]
    ELSE LET new_id == Uuid(acc.uuid + 1)
             new_entity == GraphEntity(new_id, extracted.label, extracted.type, now, now)
         IN [acc EXCEPT !.id_map = (extracted.id :> new_id) @@ acc.id_map,
                        !.added = Append(acc.added, new_entity),
                        !.entities = Append(acc.entities, new_entity),
                        !.uuid = acc.uuid + 1]

EntityStep(acc, extracted, now) ==
    EntityStepAt(acc, extracted, now, _find_similar_entity(extracted, acc.entities))

RECURSIVE EntityLoop(_, _, _, _)
EntityLoop(acc, extracted_entities, k, now) ==
    IF k > Len(extracted_entities) THEN acc
    ELSE EntityLoop(EntityStep(acc, extracted_entities[k], now),
                    extracted_entities, k + 1, now)

\* faulty variant of ResolveEndpoint: no fallback to the label
resolve_endpoint_by_id_only(ref, id_map, entities) ==
    FirstIn({i \in 1..Len(entities) : entities[i].id = DictGet(id_map, ref, ref)})

\* the entity found for one endpoint of an extracted relation: by mapped id,
\* then by normalised label; its index in entities, 0 when unresolved
ResolveEndpoint(ref, id_map, entities) ==
    LET mapped == DictGet(id_map, ref, ref)
        by_id == FirstIn({i \in 1..Len(entities) : entities[i].id = mapped})
        by_label == FirstIn({i \in 1..Len(entities) :
                        _normalize_label(entities[i].label) = _normalize_label(ref)})
    IN IF by_id # 0 THEN by_id ELSE by_label

\* faulty variant of IsDuplicateRelation: only an equal normalised phrase in the same
\* direction counts as a duplicate
is_duplicate_exact_only(relations, source_id, target_id, relation) ==
    \E i \in 1..Len(relations) :
        /\ relations[i].source = source_id
        /\ relations[i].target = target_id
        /\ _normalize_relation(relations[i].relation) = _normalize_relation(relation)

\* faulty variant of IsDuplicateRelation: any relation from the same source to
\* the same target counts as a duplicate, whatever its phrase
is_duplicate_same_pair(relations, source_id, target_id, relation) ==
    \E i \in 1..Len(relations) :
        /\ relations[i].source = source_id
        /\ relations[i].target = target_id

\* the duplicate check of step 2: some existing relation between the same two
\* entities has an equal or similar normalised phrase
IsDuplicateRelation(relations, source_id, target_id, relation) ==
    \E i \in 1..Len(relations) :
        LET r == relations[i]
            existing_rel == _normalize_relation(r.relation)
            new_rel == _normalize_relation(relation)
        IN \/ /\ r.source = source_id
              /\ r.target = target_id
              /\ \/ existing_rel = new_rel
                 \/ SimAbove(_calculate_similarity(existing_rel, new_rel), 7)
           \/ /\ r.source = target_id
              /\ r.target = source_id
              /\ SimAbove(_calculate_similarity(existing_rel, new_rel), 7)

\* faulty variant of RelationStep: the relation is appended with the extracted
\* endpoint strings, resolved or not
relation_step_unchecked(acc, extracted, id_map, entities, now) ==
    [acc EXCEPT !.added = Append(acc.added,
                     GraphRelation(Uuid(acc.uuid + 1), extracted.source,
                                   extracted.target, extracted.relation, now)),
                !.relations = Append(acc.relations,
                     GraphRelation(Uuid(acc.uuid + 1), extracted.source,
                                   extracted.target, extracted.relation, now)),
                !.uuid = acc.uuid + 1]

\* apply_extraction, step 2 (relations), one iteration of the loop body.
\* acc: relations (the graph's list), added, uuid.
\* s, t: the entities found for the source and the target (lines 111-135)
RelationStepAt(acc, extracted, entities, now, s, t) ==
    IF s = 0 \/ t = 0 THEN acc
    ELSE LET source_id == entities[s].id
             target_id == entities[t].id
             new_relation == GraphRelation(Uuid(acc.uuid + 1), source_id, target_id,
                                           extracted.relation, now)
         IN IF IsDuplicateRelation(acc.relations, source_id, target_id,
                                   extracted.relation)
            THEN acc
            ELSE [acc EXCEPT !.added = Append(acc.added, new_relation),
                             !.relations = Append(acc.relations, new_relation),
                             !.uuid = acc.uuid + 1]

RelationStep(acc, extracted, id_map, entities, now) ==
    RelationStepAt(acc, extracted, entities, now,
                   ResolveEndpoint(extracted.source, id_map, entities),
                   ResolveEndpoint(extracted.target, id_map, entities))

RECURSIVE RelationLoop(_, _, _, _, _, _)
RelationLoop(acc, extracted_relations, k, id_map, entities, now) ==
    IF k > Len(extracted_relations) THEN acc
    ELSE RelationLoop(RelationStep(acc, extracted_relations[k], id_map, entities, now),
                      extracted_relations, k + 1, id_map, entities, now)

\* faulty variant of NewVersion: the version counts the changes
new_version_by_changes(version, added_entities, updated_entities, added_relations) ==
    version + Len(added_entities) + Len(updated_entities) + Len(added_relations)

\* new_version = current_state.version + 1
NewVersion(version, added_entities, updated_entities, added_relations) ==
    version + 1

\* The synchronous part of apply_extraction, from the state get_state returned
\* to the call of _save_state: the new state (the cached object is changed in
\* place), the delta, the id map and the identifiers minted.
\* step 3 (lines 184-197), ents and rels being what steps 1 and 2 left
UpdateState(current_state, ents, rels, now) ==
    LET new_version == NewVersion(current_state.version, ents.added, ents.updated,
                                  rels.added)
    IN [state |-> GraphState(new_version, ents.entities, rels.relations, now),
        delta |-> GraphDelta(ents.added, rels.added, ents.updated,
                             current_state.version, new_version),
        id_map |-> ents.id_map,
        uuid |-> rels.uuid]

\* step 2 (lines 108-182) and step 3, ents being what step 1 left
ProcessRelations(current_state, extraction, ents, now) ==
    UpdateState(current_state, ents,
                RelationLoop([relations |-> current_state.relations,
                              added |-> <<>>, uuid |-> ents.uuid],
                             extraction.relations, 1, ents.id_map, ents.entities, now),
                now)

ApplyToState(current_state, extraction, id_map0, now, uuid0) ==
    ProcessRelations(current_state, extraction,
                     EntityLoop([entities |-> current_state.entities,
                                 id_map |-> id_map0,
                                 added |-> <<>>, updated |-> <<>>, uuid |-> uuid0],
                                extraction.entities, 1, now),
                     now)

\* "If anything changed: version += 1, last-updated = now", ents and rels
\* being what the entity and the relation pass left
ReconcileResult(current_state, ents, rels, now) ==
    LET changed == ents.added # <<>> \/ ents.updated # <<>> \/ rels.added # <<>>
        new_version == IF changed THEN current_state.version + 1
                       ELSE current_state.version
    IN [state |-> IF changed
                  THEN GraphState(new_version, ents.entities, rels.relations, now)
                  ELSE current_state,
        delta |-> GraphDelta(ents.added, rels.added, ents.updated,
                             current_state.version, new_version),
        id_map |-> ents.id_map,
        uuid |-> rels.uuid,
        changed |-> changed]

ReconcileRelations(current_state, extraction, ents, now) ==
    ReconcileResult(current_state, ents,
                    RelationLoop([relations |-> current_state.relations,
                                  added |-> <<>>, uuid |-> ents.uuid],
                                 extraction.relations, 1, ents.id_map, ents.entities,
                                 now),
                    now)

\* The graph manager's "apply extraction" with a temporary-id map passed in
\* and returned (the two methods the extraction worker calls): entities and
\* relations are reconciled as in apply_extraction, starting from the caller's
\* id map; the version is raised, and the graph persisted, only if anything
\* changed.
Reconcile(current_state, extraction, existing_id_map, now, uuid0) ==
    ReconcileRelations(current_state, extraction,
                       EntityLoop([entities |-> current_state.entities,
                                   id_map |-> existing_id_map,
                                   added |-> <<>>, updated |-> <<>>, uuid |-> uuid0],
                                  extraction.entities, 1, now),
                       now)

\* apply_extraction_with_id_map(session_id, partial_result): no map passed in
apply_extraction_with_id_map(current_state, extraction, now, uuid0) ==
    Reconcile(current_state, extraction, EmptyMap, now, uuid0)

\* apply_extraction_with_existing_id_map(session_id, relations_result,
\* existing_id_map=streaming_id_map)
apply_extraction_with_existing_id_map(current_state, extraction, existing_id_map, now, uuid0) ==
    Reconcile(current_state, extraction, existing_id_map, now, uuid0)

\* ------------------------------------------------------------------------
\* Inputs: the extraction results the callers pass
\* ------------------------------------------------------------------------
\* temporary ids the LLM gives its entities
e1 == <<"e", "1">>
e2 == <<"e", "2">>

\* entity labels
Lab_ab   == <<"a", "b">>
Lab_Ab   == <<"A", "b">>
Lab_A_b  == <<"A", ".", "b">>
Lab_dot  == <<".">>
Lab_bang == <<"!", " ">>
Lab_abc  == <<"a", "b", "c">>
Lab_abcd == <<"a", "b", "c", "d">>
Lab_abcx == <<"a", "b", "c", "x">>
Lab_zz   == <<"z", "z">>
\* the Korean name of a company, its four syllables written as code points,
\* and its English name
Lab_samseongjeonja == <<"U+C0BC", "U+C131", "U+C804", "U+C790">>
Lab_Samsung == <<"S", "a", "m", "s", "u", "n", "g">>

\* relation phrases
Rel_a_cd == <<"a", " ", "c", "d">>
Rel_A_cd == <<"A", ".", "c", "d">>
Rel_a_cx == <<"a", " ", "c", "x">>
Rel_works_at == <<"w", "o", "r", "k", "s", " ", "a", "t">>
Rel_employed_by == <<"e", "m", "p", "l", "o", "y", "e", "d", " ", "b", "y">>

EntityLists ==
    { <<>>,
      <<ExtractedEntity(e1, Lab_ab, "PERSON")>>,
      <<ExtractedEntity(e1, Lab_A_b, "ORGANIZATION")>>,
      <<ExtractedEntity(e1, Lab_dot, "PERSON")>>,
      <<ExtractedEntity(e1, Lab_bang, "PERSON")>>,
      <<ExtractedEntity(e1, Lab_ab, "PERSON"),
        ExtractedEntity(e2, Lab_abcd, "PERSON")>>,
      <<ExtractedEntity(e1, Lab_abcx, "PERSON")>> }

RelationLists ==
    { <<>>,
      <<ExtractedRelation(e1, e2, Rel_a_cd),
        ExtractedRelation(e1, e2, Rel_A_cd)>>,
      <<ExtractedRelation(e2, e1, Rel_a_cx)>>,
      <<ExtractedRelation(Lab_Ab, Lab_abcd, Rel_a_cd)>>,
      <<ExtractedRelation(e1, Lab_zz, Rel_a_cd)>> }

\* the lists above in every combination, two extractions that relate the
\* same two entities in words that share no wording, and two that name one
\* company in two languages
Extractions ==
    {ExtractionResult(es, rs) : es \in EntityLists, rs \in RelationLists}
    \cup {ExtractionResult(<<ExtractedEntity(e1, Lab_ab, "PERSON"),
                             ExtractedEntity(e2, Lab_zz, "ORGANIZATION")>>,
                           <<ExtractedRelation(e1, e2, phrase)>>) :
             phrase \in {Rel_works_at, Rel_employed_by}}
    \cup {ExtractionResult(<<ExtractedEntity(e1, label, "ORGANIZATION")>>, <<>>) :
             label \in {Lab_samseongjeonja, Lab_Samsung}}

\* what the LLM answers to the batches of the extraction worker
StreamedExtractions ==
    { ExtractionResult(<<ExtractedEntity(e1, Lab_ab, "PERSON"),
                         ExtractedEntity(e2, Lab_abcd, "PERSON")>>,
                       <<ExtractedRelation(e1, e2, Rel_a_cd),
                         ExtractedRelation(e1, e2, Rel_A_cd)>>),
      ExtractionResult(<<ExtractedEntity(e1, Lab_ab, "PERSON"),
                         ExtractedEntity(e2, Lab_abcd, "PERSON")>>,
                       <<ExtractedRelation(e1, e2, Rel_a_cd)>>),
      ExtractionResult(<<ExtractedEntity(e1, Lab_A_b, "ORGANIZATION")>>,
                       <<ExtractedRelation(Lab_Ab, Lab_abcd, Rel_a_cd)>>),
      ExtractionResult(<<ExtractedEntity(e1, Lab_ab, "PERSON")>>, <<>>),
      ExtractionResult(<<>>, <<ExtractedRelation(e1, Lab_zz, Rel_a_cd)>>) }

\* ------------------------------------------------------------------------
\* State
\* ------------------------------------------------------------------------
VARIABLES
    local_cache,     \* GraphStateManager._local_cache[session_id], None when absent
    redis_graph,     \* the cache key rkg:graph_state:<session>, None when absent
    redis_snapshots, \* versions with a key rkg:graph_state:<session>:snapshot:<v>
    lock,            \* GraphStateManager._lock: the task holding it, 0 when free
    pc,              \* where each caller of apply_extraction is
    arg,             \* the extraction each caller passed
    pending,         \* per caller: the delta built and the version get_state gave
    uuid_counter,    \* identifiers minted by uuid.uuid4() so far
    clock,           \* time.time() in ms
    calls,           \* apply_extraction calls started
    last,            \* the last call that returned: its input, delta and graph before
    held,            \* the state object a get_state call returned to a reader: its
                     \* value then, whether it is still the cached object, and
                     \* its value when it left the cache
    conn,            \* per connection: "closed", or "open" after START_SESSION
    client,          \* per connection: the graph the client holds, None before GRAPH_FULL
    message_queue,   \* per connection: RealtimePipeline._message_queue (GRAPH_DELTA frames)
    worker,          \* per connection: where its extraction worker is, and its locals
    delivered,       \* per connection: the last frame the client applied, and the
                     \* client's graph before it
    outbound,        \* per connection: the graph frames sent to the client so far, in
                     \* order: GRAPH_FULL, then the GRAPH_DELTA frames put on the queue
    text,            \* the LLM's whole output, a sequence of tokens
    rest,            \* the part of text not yet fed to the parser
    _buffer,         \* PartialJSONParser._buffer
    _parsed_entities,    \* PartialJSONParser._parsed_entities
    _parsed_relations,   \* PartialJSONParser._parsed_relations
    _seen_entity_ids,    \* PartialJSONParser._seen_entity_ids
    _seen_relation_keys, \* PartialJSONParser._seen_relation_keys
    fed,             \* what the feed calls so far returned: entities, relations
    feeds,           \* the feed calls so far: what they returned, in order, and
                     \* how many of them fed a chunk again
    is_active,       \* SessionState.is_active of the connection's session
    should_clear_data,   \* SessionState.should_clear_data
    handler,         \* where handle_connection is: "accepted" (receive loop, before
                     \* START_SESSION), "started" (receive loop, pipeline running),
                     \* "stopping" (finally block, in pipeline.stop()), "closed"
    _active_sessions,    \* whether WebSocketHandler._active_sessions holds the connection
    _last_client_activity,   \* RealtimePipeline._last_client_activity, in seconds
    now,             \* time.time() of the connection, in seconds
    heartbeat,       \* the heartbeat task: "none", "sleeping", "timed_out", "cancelled"
    _message_queue,  \* RealtimePipeline._message_queue of the connection
    messages_to_send,    \* the sender's frames taken from the queue and not yet written
    sender,          \* the sender task: "none", "loop", "drain", "done"
    websocket,       \* the frames written to the socket, in order, and the task that
                     \* wrote each
    enqueued,        \* the frames put on _message_queue so far, in order
    received,        \* the frames receive_json returned so far, in order
    _audio_queue,    \* RealtimePipeline._audio_queue: the numbers of the chunks on it
    _text_queue,     \* RealtimePipeline._text_queue: the kinds of the texts on it
    _sentence_queue, \* RealtimePipeline._sentence_queue: the numbers of the sentences
    stt,             \* where _stt_worker is, and the text its call returned
    nlp,             \* where _nlp_worker is, and where it goes after the sentence
    extractor,       \* where _extraction_worker is, and the batch it extracts from
    text_buffer,     \* text_buffer of _nlp_worker: "" when empty, "char" for one
                     \* character, "text" for three characters or more
    sentence_counter,    \* sentence_counter of _nlp_worker
    sentence_buffer, \* sentence_buffer of _extraction_worker
    chunks,          \* the AUDIO_CHUNK frames handled so far
    sequence_counter,    \* SessionState.sequence_counter
    dropped,         \* the numbers of the chunks process_audio_chunk dropped
    context,         \* the latest call of select_relevant_context: its arguments
                     \* and, once it has returned, what it returned
    accumulated_audio,   \* SessionState.accumulated_audio: the sizes of its chunks
    accumulated_audio_size,  \* SessionState.accumulated_audio_size
    total_audio_duration_ms, \* SessionState.total_audio_duration_ms
    redis_manager,   \* the RedisManager singleton and whether the cache answers
    reader,          \* a get_state call outside apply_extraction that missed the cache
    transcript       \* the NLP worker's text: what it received, finalized and buffers

graphVars == <<local_cache, redis_graph, redis_snapshots, lock, pc, arg, pending,
               uuid_counter, clock, calls, last, held>>

pipeVars == <<conn, client, message_queue, worker, delivered, outbound>>

parserVars == <<text, rest, _buffer, _parsed_entities, _parsed_relations,
                _seen_entity_ids, _seen_relation_keys, fed, feeds>>

\* the connection's state that its workers read and never write
connVars == <<is_active, should_clear_data, handler, _active_sessions,
              _last_client_activity, now, heartbeat, messages_to_send, sender,
              received>>

workVars == <<_audio_queue, _text_queue, _sentence_queue, stt, nlp, extractor,
              text_buffer, sentence_counter, sentence_buffer, chunks,
              sequence_counter, dropped>>

sessVars == <<connVars, _message_queue, websocket, enqueued, workVars>>

\* state beside the workers: the latest call of select_relevant_context and
\* the audio a session keeps for feedback
audioVars == <<accumulated_audio, accumulated_audio_size, total_audio_duration_ms>>
sideVars == <<context, audioVars, redis_manager, reader, transcript>>

vars == <<graphVars, pipeVars, parserVars, sessVars, sideVars>>

\* no call of select_relevant_context yet
NoContext ==
    [text |-> <<>>, entities |-> <<>>, relations |-> <<>>, called |-> FALSE,
     selected_entities |-> <<>>, selected_relations |-> <<>>]

\* RedisManager.__init__; connect has not been called, the cache answers
Constructed ==
    [phase |-> "constructed", attempt |-> 0, _client |-> FALSE,
     _connection_task |-> FALSE, _should_reconnect |-> FALSE,
     reachable |-> TRUE, checks |-> 0]

\* no get_state call is suspended
NoReader == [pc |-> "idle", data |-> None]

\* _nlp_worker before its first text, lines 351-352
NoTranscript == [text_buffer |-> <<>>, finalized |-> <<>>, received |-> <<>>]

AudioIdle ==
    /\ accumulated_audio = <<>>
    /\ accumulated_audio_size = 0
    /\ total_audio_duration_ms = 0

SideIdle ==
    /\ context = NoContext
    /\ AudioIdle
    /\ redis_manager = Constructed
    /\ reader = NoReader
    /\ transcript = NoTranscript

\* the concurrent callers of the graph manager (two connections, or a
\* connection and the HTTP surface, on one session id)
Tasks == {1, 2}

\* every 10th version is written as a snapshot
SnapshotEvery == 10

NoExtraction == ExtractionResult(<<>>, <<>>)
NoDelta == GraphDelta(<<>>, <<>>, <<>>, -1, -1)
NoPending == [delta |-> NoDelta, seen_version |-> -1, pre |-> None, waited |-> FALSE,
              id_map |-> EmptyMap]
NoCall == [task |-> 0, extraction |-> NoExtraction, delta |-> NoDelta,
           seen_version |-> -1, pre |-> None, post |-> None, waited |-> FALSE,
           n |-> 0]

NoHeld == [returned |-> None, live |-> FALSE, left |-> None]

\* a graph persisted by an earlier run of the server: the empty graph after
\* SnapshotEvery - 1 extractions that found nothing
PersistedGraph == GraphState(SnapshotEvery - 1, <<>>, <<>>, 0)

GraphInit ==
    /\ local_cache = None
    /\ redis_graph \in {None, PersistedGraph}
    /\ redis_snapshots = {}
    /\ lock = 0
    /\ pc = [t \in Tasks |-> "idle"]
    /\ arg = [t \in Tasks |-> NoExtraction]
    /\ pending = [t \in Tasks |-> NoPending]
    /\ uuid_counter = 0
    /\ clock = 0
    /\ calls = 0
    /\ last = NoCall
    /\ held = NoHeld

\* ------------------------------------------------------------------------
\* GraphStateManager.apply_extraction, cut at its await points
\* ------------------------------------------------------------------------
\* lines 59-197 on the state object get_state returned: runs without an await
\* up to the call of _save_state
MutateTo(t, current_state, waited, r) ==
    /\ local_cache' = r.state
    /\ pending' = [pending EXCEPT ![t] = [delta |-> r.delta,
                                          seen_version |-> current_state.version,
                                          pre |-> current_state,
                                          waited |-> waited,
                                          id_map |-> r.id_map]]
    /\ uuid_counter' = r.uuid
    /\ clock' = clock + 1
    /\ pc' = [pc EXCEPT ![t] = "save"]

Mutate(t, x, current_state, waited) ==
    MutateTo(t, current_state, waited,
             ApplyToState(current_state, x, EmptyMap, clock + 1, uuid_counter))

\* async with self._lock (taken without an await when it is free), then
\* get_state: on a cache hit it returns without an await and the call runs on
\* to _save_state; on a miss it awaits load_graph_state
Enter(t, x, waited) ==
    /\ lock' = t
    /\ IF local_cache # None
       THEN /\ Mutate(t, x, local_cache, waited)
            /\ UNCHANGED <<redis_graph>>
       ELSE /\ pc' = [pc EXCEPT ![t] = "load"]
            /\ pending' = [pending EXCEPT ![t].waited = waited]
            /\ UNCHANGED <<local_cache, redis_graph, uuid_counter, clock>>

\* a task calls apply_extraction(session_id, extraction): it enters when the
\* lock is free and waits for it otherwise
CallApply(t) ==
    /\ pc[t] = "idle"
    /\ calls < MaxCalls
    /\ calls' = calls + 1
    /\ \E x \in Extractions :
          /\ arg' = [arg EXCEPT ![t] = x]
          /\ IF lock = 0
             THEN Enter(t, x, FALSE)
             ELSE /\ pc' = [pc EXCEPT ![t] = "acquire"]
                  /\ UNCHANGED <<local_cache, redis_graph, lock, pending,
                                 uuid_counter, clock>>
    /\ UNCHANGED <<redis_snapshots, last, pipeVars, parserVars, sideVars, sessVars>>
    /\ UNCHANGED held

\* a waiting task is given the lock
Acquire(t) ==
    /\ pc[t] = "acquire"
    /\ lock = 0
    /\ Enter(t, arg[t], TRUE)
    /\ UNCHANGED <<redis_snapshots, arg, calls, last, pipeVars, parserVars, sideVars, sessVars>>
    /\ UNCHANGED held

\* get_state on a cache miss: load_graph_state returns
Load(t) ==
    /\ pc[t] = "load"
    /\ IF redis_graph # None
       THEN Mutate(t, arg[t], redis_graph, pending[t].waited)
       ELSE /\ local_cache' = _create_empty_state(clock)
            /\ pc' = [pc EXCEPT ![t] = "save_new"]
            /\ UNCHANGED <<pending, uuid_counter, clock>>
    /\ UNCHANGED <<redis_graph, redis_snapshots, lock, arg, calls, last, pipeVars, parserVars, sideVars, sessVars>>
    /\ UNCHANGED held

\* get_state on a cache miss with nothing persisted: _save_state of the new
\* empty state returns, get_state returns it and the call runs on
SaveNew(t) ==
    /\ pc[t] = "save_new"
    /\ redis_graph' = local_cache
    /\ Mutate(t, arg[t], local_cache, pending[t].waited)
    /\ UNCHANGED <<redis_snapshots, lock, arg, calls, last, pipeVars, parserVars, sideVars, sessVars>>
    /\ UNCHANGED held

\* _save_state returns; the snapshot is written when due; the delta is
\* returned and the lock released
Save(t) ==
    /\ pc[t] = "save"
    /\ redis_graph' = local_cache
    /\ redis_snapshots' =
          IF pending[t].delta.to_version % SnapshotEvery = 0
          THEN redis_snapshots \cup {pending[t].delta.to_version}
          ELSE redis_snapshots
    /\ last' = [task |-> t, extraction |-> arg[t], delta |-> pending[t].delta,
                seen_version |-> pending[t].seen_version, pre |-> pending[t].pre,
                post |-> local_cache, waited |-> pending[t].waited,
                n |-> last.n + 1]
    /\ lock' = 0
    /\ pc' = [pc EXCEPT ![t] = "idle"]
    /\ pending' = [pending EXCEPT ![t] = NoPending]
    /\ arg' = [arg EXCEPT ![t] = NoExtraction]
    /\ UNCHANGED <<local_cache, uuid_counter, clock, calls, pipeVars, parserVars, sideVars, sessVars>>
    /\ UNCHANGED held

GraphNext ==
    \E t \in Tasks : CallApply(t) \/ Acquire(t) \/ Load(t) \/ SaveNew(t) \/ Save(t)

\* get_state called by a reader outside apply_extraction, while no other
\* get_state call is waiting for the cache: it returns the cached object
\* itself, or the object it has just built and cached
get_state ==
    /\ held = NoHeld
    /\ \A t \in Tasks : pc[t] \notin {"load", "save_new"}
    /\ LET state == IF local_cache # None THEN local_cache
                    ELSE IF redis_graph # None THEN redis_graph
                    ELSE _create_empty_state(clock)
       IN /\ local_cache' = state
          /\ redis_graph' = IF local_cache = None /\ redis_graph = None
                            THEN state ELSE redis_graph
          /\ held' = [returned |-> state, live |-> TRUE, left |-> None]
    /\ UNCHANGED <<redis_snapshots, lock, pc, arg, pending, uuid_counter, clock,
                   calls, last, pipeVars, parserVars, sideVars, sessVars>>

\* reset_state: with the lock held, a new empty state replaces the cached
\* object and is saved
reset_state ==
    /\ lock = 0
    /\ local_cache' = _create_empty_state(clock)
    /\ redis_graph' = local_cache'
    /\ held' = IF held.live
               THEN [held EXCEPT !.live = FALSE, !.left = local_cache]
               ELSE held
    /\ UNCHANGED <<redis_snapshots, lock, pc, arg, pending, uuid_counter, clock,
                   calls, last, pipeVars, parserVars, sideVars, sessVars>>

\* the graph manager with a reader of the state and resets
ReaderNext == GraphNext \/ get_state \/ reset_state

\* the cache is unavailable when a call awaits it: RedisManager.client raises
\* RuntimeError (or the Redis command raises) in load_graph_state or in
\* save_graph_state; nothing catches it in get_state, _save_state or
\* apply_extraction, so the lock is released and the call raises to its
\* caller with no delta, past the snapshot and the return
Unavailable(t) ==
    /\ pc[t] \in {"load", "save_new", "save"}
    /\ pc' = [pc EXCEPT ![t] = "raised"]
    /\ lock' = 0
    /\ UNCHANGED <<local_cache, redis_graph, redis_snapshots, arg, pending, uuid_counter,
                   clock, calls, last, held, pipeVars, parserVars, sideVars, sessVars>>

\* the caller handles the exception (the extraction worker logs it, lines 845-847)
Caught(t) ==
    /\ pc[t] = "raised"
    /\ pc' = [pc EXCEPT ![t] = "idle"]
    /\ pending' = [pending EXCEPT ![t] = NoPending]
    /\ arg' = [arg EXCEPT ![t] = NoExtraction]
    /\ UNCHANGED <<local_cache, redis_graph, redis_snapshots, lock, uuid_counter,
                   clock, calls, last, held, pipeVars, parserVars, sideVars, sessVars>>

\* the callers of apply_extraction while the cache comes and goes
OutageNext == GraphNext \/ \E t \in Tasks : Unavailable(t) \/ Caught(t)


\* ------------------------------------------------------------------------
\* Connections: START_SESSION, the extraction worker, the message sender and
\* the client (websocket.py)
\* ------------------------------------------------------------------------
NoWork == [phase |-> "idle", todo |-> <<>>, relations |-> <<>>, id_map |-> EmptyMap,
           run |-> 0, extraction |-> NoExtraction]
NoDelivery == [n |-> 0, delta |-> NoDelta, before |-> None, server |-> None]

PipeInit ==
    /\ conn = [c \in Tasks |-> "closed"]
    /\ client = [c \in Tasks |-> None]
    /\ message_queue = [c \in Tasks |-> <<>>]
    /\ worker = [c \in Tasks |-> NoWork]
    /\ delivered = [c \in Tasks |-> NoDelivery]
    /\ outbound = [c \in Tasks |-> <<>>]

\* the client applies a GRAPH_DELTA frame: it appends the added entities and
\* relations, replaces the updated entities by id and takes toVersion
ClientApply(graph, delta) ==
    LET appended == graph.entities \o delta.added_entities
        upd(e) == LET hits == {i \in 1..Len(delta.updated_entities) :
                                  delta.updated_entities[i].id = e.id}
                  IN IF hits = {} THEN e
                     ELSE delta.updated_entities[CHOOSE i \in hits :
                                                     \A j \in hits : j <= i]
    IN [graph EXCEPT !.entities = [i \in 1..Len(appended) |-> upd(appended[i])],
                     !.relations = graph.relations \o delta.added_relations,
                     !.version = delta.to_version]

\* handle_connection on START_SESSION with the session id the client gave:
\* get_full_state_for_client (get_state: the cached graph, else the persisted
\* one, else a new empty one, which is cached and saved), GRAPH_FULL is sent
\* to the client and the pipeline started. Connections start one after
\* another: no two get_state calls overlap on a cache miss. GRAPH_FULL is
\* recorded as the delta that adds the whole graph.
StartSession(c) ==
    /\ conn[c] = "closed"
    /\ LET state == IF local_cache # None THEN local_cache
                    ELSE IF redis_graph # None THEN redis_graph
                    ELSE _create_empty_state(clock)
       IN /\ local_cache' = state
          /\ redis_graph' = IF local_cache = None /\ redis_graph = None
                            THEN state ELSE redis_graph
          /\ client' = [client EXCEPT ![c] = state]
          /\ outbound' = [outbound EXCEPT ![c] =
                             <<[run |-> 0, phase |-> "full",
                                delta |-> GraphDelta(state.entities, state.relations,
                                                     <<>>, state.version,
                                                     state.version)]>>]
    /\ conn' = [conn EXCEPT ![c] = "open"]
    /\ UNCHANGED <<redis_snapshots, lock, pc, arg, pending, uuid_counter, clock,
                   calls, last, message_queue, worker, delivered>>
    /\ UNCHANGED <<parserVars, sideVars, sessVars>>
    /\ UNCHANGED held

\* _extraction_worker, lines 701-732 and the LLM's answer: a batch of
\* sentences is due, the streaming id map starts empty, and the LLM streams
\* the entities of x, then its relations
\* (the worker's record keeps x and the number of the run)
Trigger(c) ==
    /\ conn[c] = "open"
    /\ worker[c].phase = "idle"
    /\ calls < MaxCalls
    /\ calls' = calls + 1
    /\ \E x \in StreamedExtractions :
          worker' = [worker EXCEPT ![c] = [phase |-> "stream", todo |-> x.entities,
                                           relations |-> x.relations,
                                           id_map |-> EmptyMap,
                                           run |-> calls + 1,
                                           extraction |-> x]]
    /\ UNCHANGED <<local_cache, redis_graph, redis_snapshots, lock, pc, arg, pending,
                   uuid_counter, clock, last, conn, client, message_queue, delivered,
                   outbound>>
    /\ UNCHANGED <<parserVars, sideVars, sessVars>>
    /\ UNCHANGED held

\* AfterApply without the relations pass's frame
AfterApply_entities_only(c, w, phase, r) ==
    LET frame == [delta |-> r.delta, server |-> r.state]
        send == /\ phase = "partial"
                /\ r.delta.added_entities # <<>> \/ r.delta.updated_entities # <<>>
    IN /\ worker' = [worker EXCEPT ![c] =
                        [w EXCEPT !.phase = IF phase = "partial" THEN "stream"
                                            ELSE "idle",
                                  !.id_map = IF phase = "partial"
                                             THEN r.id_map @@ w.id_map
                                             ELSE w.id_map]]
       /\ message_queue' = [message_queue EXCEPT
                               ![c] = IF send THEN Append(@, frame) ELSE @]
       /\ outbound' = [outbound EXCEPT
                          ![c] = IF send
                                 THEN Append(@, [run |-> w.run, phase |-> phase,
                                                 delta |-> r.delta])
                                 ELSE @]

\* what the worker (its locals w) does with the result a graph-manager call
\* returned: on_partial_result (lines 759-768) merges the id map and sends the
\* delta if it adds or updates an entity; the relations pass (lines 815-829)
\* sends it if it adds a relation. _send_graph_delta puts the frame on the
\* queue; the frame carries, for the comparison only, the server's graph.
AfterApply(c, w, phase, r) ==
    LET frame == [delta |-> r.delta, server |-> r.state]
        send == IF phase = "partial"
                THEN r.delta.added_entities # <<>> \/ r.delta.updated_entities # <<>>
                ELSE r.delta.added_relations # <<>>
    IN /\ worker' = [worker EXCEPT ![c] =
                        [w EXCEPT !.phase = IF phase = "partial" THEN "stream"
                                            ELSE "idle",
                                  !.id_map = IF phase = "partial"
                                             THEN r.id_map @@ w.id_map
                                             ELSE w.id_map]]
       /\ message_queue' = [message_queue EXCEPT
                               ![c] = IF send THEN Append(@, frame) ELSE @]
       /\ outbound' = [outbound EXCEPT
                          ![c] = IF send
                                 THEN Append(@, [run |-> w.run, phase |-> phase,
                                                 delta |-> r.delta])
                                 ELSE @]

\* the graph-manager call with the lock held: when nothing changed it returns
\* at once; else the graph is changed in place and _save_state awaited
WEnterWith(c, w, phase, r) ==
    /\ clock' = clock + 1
    /\ uuid_counter' = r.uuid
    /\ local_cache' = r.state
    /\ IF r.changed
       THEN /\ lock' = c
            /\ pc' = [pc EXCEPT ![c] = "save"]
            /\ pending' = [pending EXCEPT ![c] =
                              [delta |-> r.delta,
                               seen_version |-> local_cache.version,
                               pre |-> local_cache, waited |-> FALSE,
                               id_map |-> r.id_map]]
            /\ worker' = [worker EXCEPT ![c] = [w EXCEPT !.phase = phase]]
            /\ UNCHANGED <<message_queue, outbound>>
       ELSE /\ lock' = 0
            /\ pc' = [pc EXCEPT ![c] = "idle"]
            /\ UNCHANGED pending
            /\ AfterApply(c, w, phase, r)

WEnter(c, w, phase, x) ==
    WEnterWith(c, w, phase,
               IF phase = "partial"
               THEN apply_extraction_with_id_map(local_cache, x, clock + 1,
                                                 uuid_counter)
               ELSE apply_extraction_with_existing_id_map(local_cache, x, w.id_map,
                                                          clock + 1, uuid_counter))

\* the worker calls the graph manager with x: it enters when the lock is free
\* and waits for it otherwise
WCall(c, w, phase, x) ==
    /\ arg' = [arg EXCEPT ![c] = x]
    /\ IF lock = 0
       THEN WEnter(c, w, phase, x)
       ELSE /\ pc' = [pc EXCEPT ![c] = "acquire"]
            /\ worker' = [worker EXCEPT ![c] = [w EXCEPT !.phase = phase]]
            /\ UNCHANGED <<local_cache, lock, pending, uuid_counter, clock,
                           message_queue, outbound>>

\* on_partial_result(new_entities, new_relations) with new entities: the
\* parser has completed the next k entities of the stream; the worker applies
\* them alone (relations=[])
OnPartialResult(c) ==
    /\ worker[c].phase = "stream"
    /\ worker[c].todo # <<>>
    /\ \E k \in 1..Len(worker[c].todo) :
          WCall(c, [worker[c] EXCEPT !.todo = SubSeq(@, k + 1, Len(@))], "partial",
                ExtractionResult(SubSeq(worker[c].todo, 1, k), <<>>))
    /\ UNCHANGED <<redis_graph, redis_snapshots, calls, last, conn, client, delivered>>
    /\ UNCHANGED <<parserVars, sideVars, sessVars>>
    /\ UNCHANGED held

\* process_chunk_streaming has returned: if extraction_result.relations, the
\* relations are applied alone with the streaming id map (lines 791-813)
StreamEnd(c) ==
    /\ worker[c].phase = "stream"
    /\ worker[c].todo = <<>>
    /\ IF worker[c].relations # <<>>
       THEN WCall(c, worker[c], "final",
                  ExtractionResult(<<>>, worker[c].relations))
       ELSE /\ worker' = [worker EXCEPT ![c] = NoWork]
            /\ UNCHANGED <<local_cache, lock, pc, arg, pending, uuid_counter,
                           clock, message_queue, outbound>>
    /\ UNCHANGED <<redis_graph, redis_snapshots, calls, last, conn, client, delivered>>
    /\ UNCHANGED <<parserVars, sideVars, sessVars>>
    /\ UNCHANGED held

\* a worker waiting for the graph manager's lock is given it
WAcquire(c) ==
    /\ pc[c] = "acquire"
    /\ worker[c].phase \in {"partial", "final"}
    /\ lock = 0
    /\ WEnter(c, worker[c], worker[c].phase, arg[c])
    /\ UNCHANGED <<redis_graph, redis_snapshots, arg, calls, last, conn, client,
                   delivered>>
    /\ UNCHANGED <<parserVars, sideVars, sessVars>>
    /\ UNCHANGED held

\* _save_state returns (the snapshot is written when due), the lock is
\* released and the call returns to the worker
WSave(c) ==
    /\ pc[c] = "save"
    /\ worker[c].phase \in {"partial", "final"}
    /\ redis_graph' = local_cache
    /\ redis_snapshots' =
          IF pending[c].delta.to_version % SnapshotEvery = 0
          THEN redis_snapshots \cup {pending[c].delta.to_version}
          ELSE redis_snapshots
    /\ lock' = 0
    /\ pc' = [pc EXCEPT ![c] = "idle"]
    /\ pending' = [pending EXCEPT ![c] = NoPending]
    /\ arg' = [arg EXCEPT ![c] = NoExtraction]
    /\ AfterApply(c, worker[c], worker[c].phase,
                  [delta |-> pending[c].delta, state |-> local_cache,
                   id_map |-> pending[c].id_map])
    /\ UNCHANGED <<local_cache, uuid_counter, clock, calls, last, conn, client,
                   delivered>>
    /\ UNCHANGED <<parserVars, sideVars, sessVars>>
    /\ UNCHANGED held

\* _message_sender_worker takes the next frame off the queue and sends it;
\* the client applies it
Sender(c) ==
    /\ message_queue[c] # <<>>
    /\ LET frame == Head(message_queue[c])
       IN /\ client' = [client EXCEPT ![c] = ClientApply(@, frame.delta)]
          /\ delivered' = [delivered EXCEPT ![c] =
                              [n |-> @.n + 1, delta |-> frame.delta,
                               before |-> client[c], server |-> frame.server]]
    /\ message_queue' = [message_queue EXCEPT ![c] = Tail(@)]
    /\ UNCHANGED <<graphVars, conn, worker, outbound>>
    /\ UNCHANGED <<parserVars, sideVars, sessVars>>

PipeNext ==
    \E c \in Tasks :
        \/ StartSession(c)
        \/ Trigger(c)
        \/ OnPartialResult(c)
        \/ StreamEnd(c)
        \/ WAcquire(c)
        \/ WSave(c)
        \/ Sender(c)

\* ------------------------------------------------------------------------
\* PartialJSONParser (gcp/vertex_ai.py)
\*
\* The LLM's output is a sequence of tokens, each standing for a fixed piece
\* of text:  "F" a code fence ("```json" and the white space after it),
\* "{" "}" "[" "]" the JSON brackets, "E" the key "entities" with its colon,
\* "R" the key "relations" with its colon, "x" any other text, an entity
\* body the three fields id, label, type of one entity in that order, a
\* reordered entity body the same three fields in another order, and a
\* relation body the three fields source, target, relation of one relation.
\* The regular expressions of the parser are evaluated on the tokens.
\* ------------------------------------------------------------------------
MaxItems == 2
MaxRefed == 3
MaxFeedLen == 13

EntityBodies == {"1", "1b", "2"}
\* "2t": the fields of the entity of "2" written type, id, label
ReorderedBodies == {"2t"}
RelationBodies == {"r", "s"}

\* the entity an entity body spells; "1" and "1b" carry the same id, and so
\* do "2" and "2t"
EntityOf(tok) ==
    IF tok = "1" THEN ExtractedEntity(<<"e", "1">>, <<"a">>, "PERSON")
    ELSE IF tok = "1b" THEN ExtractedEntity(<<"e", "1">>, <<"b">>, "PERSON")
    ELSE ExtractedEntity(<<"e", "2">>, <<"c">>, "PERSON")

RelationOf(tok) ==
    IF tok = "r" THEN ExtractedRelation(<<"e", "1">>, <<"e", "2">>, <<"k">>)
    ELSE ExtractedRelation(<<"e", "2">>, <<"e", "1">>, <<"m">>)

rel_key(relation) == <<relation.source, relation.target, relation.relation>>

Positions(s) == [i \in 1..Len(s) |-> i]

\* re.search(r"```(?:json)?\s*(\{.*)") and, failing that, re.search(r"(\{.*)")
_extract_json_content(buffer) ==
    LET fence == {i \in 1..(Len(buffer) - 1) :
                      buffer[i] = "F" /\ buffer[i + 1] = "{"}
        brace == {i \in 1..Len(buffer) : buffer[i] = "{"}
    IN  IF fence # {} THEN SubSeq(buffer, FirstIn(fence) + 1, Len(buffer))
        ELSE IF brace # {} THEN SubSeq(buffer, FirstIn(brace), Len(buffer))
        ELSE <<>>

\* the text of the array after the leftmost  key [ : up to the first "]"
\* after it (pattern \[(.*?)\]), or to the end of the content when no "]"
\* follows (pattern \[(.*)); empty when the key is not followed by "["
ArrayFrom(json_content, k) ==
    LET closes == {j \in (k + 2)..Len(json_content) : json_content[j] = "]"}
    IN  IF closes # {}
        THEN SubSeq(json_content, k + 2, FirstIn(closes) - 1)
        ELSE SubSeq(json_content, k + 2, Len(json_content))

ArrayAfter(json_content, key) ==
    LET starts == {k \in 1..(Len(json_content) - 1) :
                       json_content[k] = key /\ json_content[k + 1] = "["}
    IN  IF starts = {} THEN <<>> ELSE ArrayFrom(json_content, FirstIn(starts))

\* re.finditer(entity_pattern, entities_str): the objects  { id label type }
EntitiesIn(entities_str) ==
    LET at == SelectSeq(Positions(entities_str),
                        LAMBDA i : /\ i + 2 <= Len(entities_str)
                                   /\ entities_str[i] = "{"
                                   /\ entities_str[i + 1] \in EntityBodies
                                   /\ entities_str[i + 2] = "}")
    IN  [n \in 1..Len(at) |-> EntityOf(entities_str[at[n] + 1])]

_try_parse_entities(json_content) == EntitiesIn(ArrayAfter(json_content, "E"))

\* the end of the object  \{[^{}]+\}  that starts at i, or 0
ObjectEnd(s, i) ==
    LET braces == {j \in (i + 1)..Len(s) : s[j] \in {"{", "}"}}
        j == FirstIn(braces)
    IN  IF s[i] = "{" /\ braces # {} /\ s[j] = "}" /\ j > i + 1 THEN j ELSE 0

\* the first relation body of the object from i to j (the three re.search
\* calls for source, target, relation), or 0
FieldsAt(s, i, j) == FirstIn({m \in (i + 1)..(j - 1) : s[m] \in RelationBodies})

RelationsIn(relations_str) ==
    LET at == SelectSeq(Positions(relations_str),
                        LAMBDA i : /\ ObjectEnd(relations_str, i) # 0
                                   /\ FieldsAt(relations_str, i,
                                               ObjectEnd(relations_str, i)) # 0)
    IN  [n \in 1..Len(at) |->
            RelationOf(relations_str[FieldsAt(relations_str, at[n],
                                              ObjectEnd(relations_str, at[n]))])]

_try_parse_relations(json_content) == RelationsIn(ArrayAfter(json_content, "R"))

\* the loop of feed over the parsed entities: those whose id was not seen
\* faulty variant of NewEntities: every parsed entity is returned, seen or not
new_entities_unseen_or_not(entities, seen) == entities

RECURSIVE NewEntities(_, _)
NewEntities(entities, seen) ==
    IF entities = <<>> THEN <<>>
    ELSE IF Head(entities).id \in seen THEN NewEntities(Tail(entities), seen)
    ELSE <<Head(entities)>>
             \o NewEntities(Tail(entities), seen \cup {Head(entities).id})

RECURSIVE NewRelations(_, _)
NewRelations(relations, seen) ==
    IF relations = <<>> THEN <<>>
    ELSE IF rel_key(Head(relations)) \in seen
    THEN NewRelations(Tail(relations), seen)
    ELSE <<Head(relations)>>
             \o NewRelations(Tail(relations),
                             seen \cup {rel_key(Head(relations))})

Range(s) == {s[i] : i \in 1..Len(s)}

PartialJSONParser ==
    [buffer |-> <<>>, parsed_entities |-> <<>>, parsed_relations |-> <<>>,
     seen_entity_ids |-> {}, seen_relation_keys |-> {},
     new_entities |-> <<>>, new_relations |-> <<>>]

FeedWith(p, buffer, new_entities, new_relations) ==
    [buffer |-> buffer,
     parsed_entities |-> p.parsed_entities \o new_entities,
     parsed_relations |-> p.parsed_relations \o new_relations,
     seen_entity_ids |->
         p.seen_entity_ids \cup {e.id : e \in Range(new_entities)},
     seen_relation_keys |->
         p.seen_relation_keys \cup {rel_key(r) : r \in Range(new_relations)},
     new_entities |-> new_entities,
     new_relations |-> new_relations]

FeedContent(p, buffer, json_content) ==
    IF json_content = <<>> THEN FeedWith(p, buffer, <<>>, <<>>)
    ELSE FeedWith(p, buffer,
                  NewEntities(_try_parse_entities(json_content),
                              p.seen_entity_ids),
                  NewRelations(_try_parse_relations(json_content),
                               p.seen_relation_keys))

\* feed(chunk): the parser after the call, with what the call returned
feed(p, chunk) ==
    FeedContent(p, p.buffer \o chunk, _extract_json_content(p.buffer \o chunk))

\* get_result()
get_result(p) == ExtractionResult(p.parsed_entities, p.parsed_relations)

\* LLM outputs: an optional first answer or remark, an optional fence, the
\* JSON object with up to MaxItems entities and relations, an optional
\* closing fence
RECURSIVE Objects(_)
Objects(bodies) ==
    IF bodies = <<>> THEN <<>>
    ELSE <<"{", Head(bodies), "}">> \o Objects(Tail(bodies))

Json(entities, relations) ==
    <<"{", "E", "[">> \o Objects(entities) \o <<"]", "R", "[">>
        \o Objects(relations) \o <<"]", "}">>

UpTo(S, n) == UNION {[1..m -> S] : m \in 0..n}

Preludes == {<<>>, <<"x">>, <<"{", "E", "[", "{", "1", "}", "]", "}">>}

Texts ==
    {prelude \o open \o Json(es, rs) \o close :
        prelude \in Preludes, open \in {<<>>, <<"F">>},
        es \in UpTo(EntityBodies \cup ReorderedBodies, MaxItems),
        rs \in UpTo(RelationBodies, MaxItems),
        close \in {<<>>, <<"F">>}}

NoFed == [entities |-> {}, relations |-> {}]
NoFeeds == [again |-> 0, entities |-> <<>>, relations |-> <<>>]

ParserIdle ==
    /\ text = <<>>
    /\ rest = <<>>
    /\ _buffer = <<>>
    /\ _parsed_entities = <<>>
    /\ _parsed_relations = <<>>
    /\ _seen_entity_ids = {}
    /\ _seen_relation_keys = {}
    /\ fed = NoFed
    /\ feeds = NoFeeds

ParserInit ==
    /\ text \in Texts
    /\ rest = text
    /\ _buffer = <<>>
    /\ _parsed_entities = <<>>
    /\ _parsed_relations = <<>>
    /\ _seen_entity_ids = {}
    /\ _seen_relation_keys = {}
    /\ fed = NoFed
    /\ feeds = NoFeeds

Parser ==
    [buffer |-> _buffer, parsed_entities |-> _parsed_entities,
     parsed_relations |-> _parsed_relations,
     seen_entity_ids |-> _seen_entity_ids,
     seen_relation_keys |-> _seen_relation_keys,
     new_entities |-> <<>>, new_relations |-> <<>>]

\* the parser after a feed call, and the record of what the call returned
Fed(p) ==
    /\ _buffer' = p.buffer
    /\ _parsed_entities' = p.parsed_entities
    /\ _parsed_relations' = p.parsed_relations
    /\ _seen_entity_ids' = p.seen_entity_ids
    /\ _seen_relation_keys' = p.seen_relation_keys
    /\ fed' = [entities |-> fed.entities \cup Range(p.new_entities),
               relations |-> fed.relations \cup Range(p.new_relations)]
    /\ UNCHANGED <<text, graphVars, pipeVars, sessVars, sideVars>>

FeedTo(p, k) ==
    /\ rest' = SubSeq(rest, k + 1, Len(rest))
    /\ feeds' = [feeds EXCEPT !.entities = @ \o p.new_entities,
                              !.relations = @ \o p.new_relations]
    /\ Fed(p)

\* the stream delivers the next chunk and the parser is fed with it
Feed ==
    \E k \in 1..Len(rest) : FeedTo(feed(Parser, SubSeq(rest, 1, k)), k)

ParserNext == Feed

RefeedTo(p) ==
    /\ rest' = rest
    /\ feeds' = [again |-> feeds.again + 1,
                 entities |-> feeds.entities \o p.new_entities,
                 relations |-> feeds.relations \o p.new_relations]
    /\ Fed(p)

\* the tokens of the text fed so far, and those the buffer holds beyond them
FedLen == Len(text) - Len(rest)
Refed == Len(_buffer) - FedLen

\* the caller feeds again a chunk it has just fed: a tail of the text fed so
\* far, as long as at most MaxRefed tokens have been fed again
Refeed ==
    \E n \in 1..(MaxRefed - Refed) :
        /\ n <= FedLen
        /\ RefeedTo(feed(Parser, SubSeq(text, FedLen - n + 1, FedLen)))

FeedsNext ==
    \/ Feed
    \/ Refeed

\* ------------------------------------------------------------------------
\* One connection: WebSocketHandler.handle_connection and the tasks of its
\* RealtimePipeline that write to the socket
\* ------------------------------------------------------------------------
HEARTBEAT_INTERVAL == 15
HEARTBEAT_TIMEOUT == 45
batch_size == 10
message_queue_maxsize == 200

\* frames a worker puts on the outbound queue, frames the client sends, and
\* heartbeat sleeps, at most
MaxFrames == 11
MaxReceived == 3
MaxBeats == 5

_DIRECT_SEND_TYPES == {"PING", "PONG"}

\* the values of the enumeration WSMessageType; "HELLO" is not one of them
WSMessageType ==
    {"AUDIO_CHUNK", "START_SESSION", "END_SESSION", "PING", "SUBMIT_FEEDBACK",
     "TRANSLATE_GRAPH", "STT_PARTIAL", "STT_FINAL", "GRAPH_DELTA", "GRAPH_FULL",
     "PROCESSING_STATUS", "ERROR", "PONG", "FEEDBACK_RESULT", "REQUEST_FEEDBACK",
     "TRANSLATE_RESULT"}

ClientFrames ==
    {[type |-> "START_SESSION", clearSession |-> FALSE],
     [type |-> "END_SESSION", clearSession |-> FALSE],
     [type |-> "END_SESSION", clearSession |-> TRUE],
     [type |-> "TRANSLATE_GRAPH", clearSession |-> FALSE],
     [type |-> "SUBMIT_FEEDBACK", clearSession |-> FALSE],
     [type |-> "PING", clearSession |-> FALSE],
     [type |-> "HELLO", clearSession |-> FALSE]}

\* handle_connection has accepted the socket and waits in receive_json
SessIdle ==
    /\ is_active = TRUE
    /\ should_clear_data = FALSE
    /\ handler = "accepted"
    /\ _active_sessions = TRUE
    /\ _last_client_activity = 0
    /\ now = 0
    /\ heartbeat = "none"
    /\ _message_queue = <<>>
    /\ messages_to_send = <<>>
    /\ sender = "none"
    /\ websocket = <<>>
    /\ enqueued = <<>>
    /\ received = <<>>
    /\ _audio_queue = <<>>
    /\ _text_queue = <<>>
    /\ _sentence_queue = <<>>
    /\ stt = [pc |-> "get", text |-> "none", consecutive_errors |-> 0, speech |-> "up"]
    /\ nlp = [pc |-> "get", after |-> "idle"]
    /\ extractor = [pc |-> "get", batch |-> <<>>]
    /\ text_buffer = ""
    /\ sentence_counter = 0
    /\ sentence_buffer = <<>>
    /\ chunks = 0
    /\ sequence_counter = 0
    /\ dropped = {}

\* a write to the socket by a task; _send_message_direct returns False once
\* the client is gone
Written(msg_type, n, payload, task) ==
    IF handler = "disconnected"
    THEN websocket
    ELSE Append(websocket,
                [type |-> msg_type, n |-> n, payload |-> payload, by |-> task])

\* RealtimePipeline._send_message called by a task: PING and PONG are written
\* at once, the other frames wait on the queue; a frame that finds the queue
\* full for a second is dropped
_send_message(msg_type, payload, task) ==
    IF ~is_active
    THEN UNCHANGED <<_message_queue, websocket, enqueued>>
    ELSE IF msg_type \in _DIRECT_SEND_TYPES
    THEN /\ websocket' = Written(msg_type, 0, payload, task)
         /\ UNCHANGED <<_message_queue, enqueued>>
    ELSE IF Len(_message_queue) < message_queue_maxsize
    THEN /\ _message_queue' =
                Append(_message_queue, [type |-> msg_type, n |-> Len(enqueued) + 1,
                                        payload |-> payload])
         /\ enqueued' =
                Append(enqueued, [type |-> msg_type, n |-> Len(enqueued) + 1,
                                  payload |-> payload])
         /\ UNCHANGED websocket
    ELSE UNCHANGED <<_message_queue, websocket, enqueued>>

\* a worker of the pipeline reports its status
_send_status ==
    /\ handler = "started"
    /\ Len(enqueued) < MaxFrames
    /\ _send_message("PROCESSING_STATUS", "IDLE", "worker")
    /\ UNCHANGED <<connVars, workVars, graphVars, pipeVars, parserVars, sideVars>>

_message_sender_worker ==
    /\ sender \in {"loop", "drain"}
    /\ \/ \* lines 637-656: the next batch, of at most batch_size frames
          /\ sender = "loop"
          /\ is_active
          /\ messages_to_send = <<>>
          /\ _message_queue # <<>>
          /\ messages_to_send' =
                SubSeq(_message_queue, 1, Min2(batch_size, Len(_message_queue)))
          /\ _message_queue' =
                SubSeq(_message_queue, Min2(batch_size, Len(_message_queue)) + 1,
                       Len(_message_queue))
          /\ UNCHANGED <<sender, websocket>>
       \/ \* lines 659-660 and 676: _send_message_direct writes a frame
          /\ messages_to_send # <<>>
          /\ websocket' = Written(Head(messages_to_send).type,
                                  Head(messages_to_send).n,
                                  Head(messages_to_send).payload, "sender")
          /\ messages_to_send' = Tail(messages_to_send)
          /\ UNCHANGED <<sender, _message_queue>>
       \/ \* lines 637 and 672-680: the loop has ended, the queue is drained
          /\ ~is_active
          /\ messages_to_send = <<>>
          /\ IF _message_queue = <<>>
             THEN /\ sender' = "done"
                  /\ UNCHANGED <<_message_queue, messages_to_send>>
             ELSE /\ sender' = "drain"
                  /\ messages_to_send' = <<Head(_message_queue)>>
                  /\ _message_queue' = Tail(_message_queue)
          /\ UNCHANGED websocket
    /\ UNCHANGED <<is_active, should_clear_data, handler, _active_sessions,
                   _last_client_activity, now, heartbeat, enqueued, received,
                   workVars, graphVars, pipeVars, parserVars, sideVars>>

\* one turn of the heartbeat loop: the sleep, then the timeout test or a PING
_heartbeat_worker ==
    /\ heartbeat = "sleeping"
    /\ now < MaxBeats * HEARTBEAT_INTERVAL
    /\ now' = now + HEARTBEAT_INTERVAL
    /\ IF ~is_active
       THEN /\ heartbeat' = "stopped"
            /\ UNCHANGED <<is_active, websocket>>
       ELSE IF now' - _last_client_activity > HEARTBEAT_TIMEOUT
       THEN /\ is_active' = FALSE
            /\ heartbeat' = "timed_out"
            /\ UNCHANGED websocket
       ELSE /\ websocket' = Written("PING", 0, "", "heartbeat")
            /\ UNCHANGED <<is_active, heartbeat>>
    /\ UNCHANGED <<should_clear_data, handler, _active_sessions,
                   _last_client_activity, _message_queue, messages_to_send, sender,
                   enqueued, received, workVars, graphVars, pipeVars, parserVars, sideVars>>

\* the finally block of handle_connection up to the gather of
\* RealtimePipeline.stop: every task is cancelled where it waits. A sender
\* cancelled in its loop leaves it (line 666) for the drain loop, without the
\* frames it had taken; a sender cancelled in the drain loop ends there. The
\* frame it was writing is lost unless the write had already gone out
stop(gone, lost) ==
    /\ is_active' = FALSE
    /\ handler' = IF gone THEN "disconnected" ELSE "stopping"
    /\ heartbeat' = IF heartbeat = "sleeping" THEN "cancelled" ELSE heartbeat
    /\ websocket' = IF messages_to_send # <<>> /\ ~lost /\ ~gone
                     THEN Written(Head(messages_to_send).type,
                                  Head(messages_to_send).n,
                                  Head(messages_to_send).payload, "sender")
                     ELSE websocket
    /\ messages_to_send' = <<>>
    /\ sender' = CASE sender = "loop" -> "drain"
                    [] sender = "drain" -> "done"
                    [] OTHER -> sender

\* receive_json returns the frame f
Receive(f) ==
    /\ handler \in {"accepted", "started"}
    /\ Len(received) < MaxReceived
    /\ received' = Append(received, f)
    /\ IF f.type = "START_SESSION" /\ handler = "accepted"
       THEN \* lines 1013-1051: GRAPH_FULL, then the pipeline starts
            /\ handler' = "started"
            /\ websocket' = Written("GRAPH_FULL", 0, "", "handler")
            /\ sender' = "loop"
            /\ heartbeat' = "sleeping"
            /\ _last_client_activity' = now
            /\ UNCHANGED <<is_active, should_clear_data, messages_to_send>>
       ELSE IF ~is_active
       THEN \* lines 1053-1054
            /\ \E lost \in BOOLEAN : stop(FALSE, lost)
            /\ UNCHANGED <<should_clear_data, _last_client_activity>>
       ELSE IF handler = "accepted"
       THEN \* lines 1057-1064
            UNCHANGED <<is_active, should_clear_data, handler, heartbeat, sender,
                        messages_to_send, websocket, _last_client_activity>>
       ELSE \* _handle_message: WSMessageType(...) raises ValueError for a
            \* type that is not in the enumeration, before the activity is
            \* noted, and the handler at lines 1133-1135 sends an ERROR frame;
            \* _handle_feedback answers with FEEDBACK_RESULT whether the
            \* feedback was valid and stored or not
            /\ _last_client_activity' =
                  IF f.type \in WSMessageType THEN now ELSE _last_client_activity
            /\ is_active' = (f.type # "END_SESSION")
            /\ should_clear_data' =
                  IF f.type = "END_SESSION" THEN f.clearSession ELSE should_clear_data
            /\ \E enable_feedback \in BOOLEAN, stored \in BOOLEAN :
                  websocket' =
                     CASE f.type = "END_SESSION" /\ enable_feedback ->
                             Written("REQUEST_FEEDBACK", 0, "", "handler")
                       [] f.type = "TRANSLATE_GRAPH" ->
                             Written("TRANSLATE_RESULT", 0, "", "handler")
                       [] f.type = "SUBMIT_FEEDBACK" ->
                             Written("FEEDBACK_RESULT", 0,
                                     IF stored THEN "success" ELSE "failure",
                                     "handler")
                       [] f.type = "PING" -> Written("PONG", 0, "", "handler")
                       [] f.type \notin WSMessageType ->
                             Written("ERROR", 0, "INTERNAL_ERROR", "handler")
                       [] OTHER -> websocket
            /\ UNCHANGED <<handler, heartbeat, sender, messages_to_send>>
    /\ UNCHANGED <<_active_sessions, now, _message_queue, enqueued,
                   workVars, graphVars, pipeVars, parserVars, sideVars>>

\* receive_json raises WebSocketDisconnect
Disconnect ==
    /\ handler \in {"accepted", "started"}
    /\ \E lost \in BOOLEAN : stop(TRUE, lost)
    /\ UNCHANGED <<should_clear_data, _active_sessions, _last_client_activity, now,
                   _message_queue, enqueued, received,
                   workVars, graphVars, pipeVars, parserVars, sideVars>>

\* the rest of the finally block, once the gather of stop has returned
Closed ==
    /\ handler \in {"stopping", "disconnected"}
    /\ sender \in {"none", "done"}
    /\ handler' = "closed"
    /\ IF should_clear_data
       THEN /\ redis_graph' = None
            /\ redis_snapshots' = {}
       ELSE UNCHANGED <<redis_graph, redis_snapshots>>
    /\ _active_sessions' = FALSE
    /\ UNCHANGED <<is_active, should_clear_data, _last_client_activity, now,
                   heartbeat, _message_queue, messages_to_send, sender, websocket,
                   enqueued, received, workVars, local_cache, lock, pc, arg,
                   pending, uuid_counter, clock, calls, last, pipeVars, parserVars, sideVars>>
    /\ UNCHANGED held

\* the outbound path of a session that the client starts and ends
SenderNext ==
    \/ \E f \in {g \in ClientFrames : g.type \in {"START_SESSION", "END_SESSION"}} :
          Receive(f)
    \/ _send_status
    \/ _message_sender_worker
    \/ Closed

\* the life of a connection whose workers have nothing to report
SessionNext ==
    \/ \E f \in ClientFrames : Receive(f)
    \/ Disconnect
    \/ _message_sender_worker
    \/ _heartbeat_worker
    \/ Closed

\* ------------------------------------------------------------------------
\* The workers of a RealtimePipeline and the queues between them
\* ------------------------------------------------------------------------
audio_queue_maxsize == 100
text_queue_maxsize == 100
sentence_queue_maxsize == 100

\* len(sentence_buffer) >= 3
min_batch == 3

\* AUDIO_CHUNK frames a client sends, at most
MaxChunks == 2

\* chunks the STT worker takes and sentences the NLP worker finalizes, at most
MaxTaken == 1

\* MAX_CONSECUTIVE_ERRORS of the STT worker
MAX_CONSECUTIVE_ERRORS == 10

\* chunks the STT worker takes while the speech service is out, at most
MaxFailed == 11

\* a session in progress: START_SESSION has been handled, and the queue
\* named by full, if any, has been filled by a producer that was faster than
\* its consumer; the speech service is "up", or "down" when every call of
\* transcribe_chunk times out or raises
StartedWith(full, speech) ==
    /\ GraphInit /\ redis_graph = PersistedGraph /\ PipeInit /\ ParserIdle /\ SideIdle
    /\ is_active = TRUE
    /\ should_clear_data = FALSE
    /\ handler = "started"
    /\ _active_sessions = TRUE
    /\ _last_client_activity = 0
    /\ now = 0
    /\ heartbeat = "sleeping"
    /\ messages_to_send = <<>>
    /\ sender = "loop"
    /\ websocket = <<[type |-> "GRAPH_FULL", n |-> 0, payload |-> "", by |-> "handler"]>>
    /\ received = <<[type |-> "START_SESSION", clearSession |-> FALSE]>>
    /\ _audio_queue = [i \in 1..(IF full = "audio" THEN audio_queue_maxsize ELSE 0) |-> 0]
    /\ _text_queue = [i \in 1..(IF full = "text" THEN text_queue_maxsize ELSE 0) |-> "sent"]
    /\ _sentence_queue =
          [i \in 1..(IF full = "sentence" THEN sentence_queue_maxsize ELSE 0) |-> 0]
    /\ _message_queue =
          [i \in 1..(IF full = "message" THEN message_queue_maxsize ELSE 0) |->
              [type |-> "PROCESSING_STATUS", n |-> i, payload |-> "IDLE"]]
    /\ enqueued = _message_queue
    /\ stt = [pc |-> "get", text |-> "none", consecutive_errors |-> 0, speech |-> speech]
    /\ nlp = [pc |-> "get", after |-> "idle"]
    /\ extractor = [pc |-> "get", batch |-> <<>>]
    /\ text_buffer = ""
    /\ sentence_counter = 0
    /\ sentence_buffer = <<>>
    /\ chunks = 0
    /\ sequence_counter = 0
    /\ dropped = {}

Started(full) == StartedWith(full, "up")

\* process_audio_chunk with a put that does not wait for room
process_audio_chunk_put_nowait ==
    /\ handler = "started"
    /\ is_active
    /\ chunks < MaxChunks
    /\ chunks' = chunks + 1
    /\ _audio_queue' = Append(_audio_queue, chunks + 1)
    /\ UNCHANGED <<dropped, _text_queue, _sentence_queue, stt, nlp, extractor,
                   text_buffer, sentence_counter, sentence_buffer, sequence_counter>>
    /\ UNCHANGED <<connVars, _message_queue, websocket, enqueued,
                   graphVars, pipeVars, parserVars, sideVars>>

\* the task _handle_message creates for an AUDIO_CHUNK frame: the chunk goes
\* on the audio queue, or is dropped when the queue stays full for 500 ms.
\* The copy the session keeps for feedback (line 209), which no worker reads,
\* is the matter of add_audio_chunk below
process_audio_chunk ==
    /\ handler = "started"
    /\ is_active
    /\ chunks < MaxChunks
    /\ chunks' = chunks + 1
    /\ IF Len(_audio_queue) < audio_queue_maxsize
       THEN /\ _audio_queue' = Append(_audio_queue, chunks + 1)
            /\ UNCHANGED dropped
       ELSE /\ dropped' = dropped \cup {chunks + 1}
            /\ UNCHANGED _audio_queue
    /\ UNCHANGED <<_text_queue, _sentence_queue, stt, nlp, extractor, text_buffer,
                   sentence_counter, sentence_buffer, sequence_counter>>
    /\ UNCHANGED <<connVars, _message_queue, websocket, enqueued,
                   graphVars, pipeVars, parserVars, sideVars>>

\* the consecutive-error counter after a call of transcribe_chunk: a
\* timeout counts (line 274); an exception counts, and the counter is reset
\* after the sleep when it has reached MAX_CONSECUTIVE_ERRORS (lines 305-320);
\* a text resets it (line 298), no text leaves it
consecutive_errors(n, result) ==
    CASE result = "timeout" -> n + 1
      [] result = "error" -> IF n + 1 >= MAX_CONSECUTIVE_ERRORS THEN 0 ELSE n + 1
      [] result = "none" -> n
      [] OTHER -> 0

_stt_worker ==
    /\ handler = "started"
    /\ \/ \* lines 244-257: a chunk is taken, STT_PROCESSING reported
          /\ stt.pc = "get"
          /\ is_active
          /\ _audio_queue # <<>>
          /\ sequence_counter < (IF stt.speech = "down" THEN MaxFailed ELSE MaxTaken)
          /\ _audio_queue' = Tail(_audio_queue)
          /\ sequence_counter' = sequence_counter + 1
          /\ _send_message("PROCESSING_STATUS", "STT_PROCESSING", "worker")
          /\ stt' = [stt EXCEPT !.pc = "transcribe", !.text = "none"]
          /\ UNCHANGED _text_queue
       \/ \* lines 260-322: transcribe_chunk times out, raises, or returns no
          \* text, one character, a fragment or a sentence; the text is sent as
          \* STT_PARTIAL and, if that was accepted, put on the text queue unless
          \* it stays full
          /\ stt.pc = "transcribe"
          /\ \E result \in IF stt.speech = "down" THEN {"timeout", "error"}
                            ELSE {"timeout", "error", "none", "char", "frag", "sent"} :
                /\ IF result \in {"timeout", "error", "none"}
                   THEN UNCHANGED <<_message_queue, websocket, enqueued, _text_queue>>
                   ELSE /\ _send_message("STT_PARTIAL", sequence_counter, "worker")
                        /\ _text_queue' =
                              IF /\ is_active
                                 /\ Len(_message_queue) < message_queue_maxsize
                                 /\ Len(_text_queue) < text_queue_maxsize
                              THEN Append(_text_queue, result)
                              ELSE _text_queue
                /\ stt' = [stt EXCEPT
                              !.pc = IF result \in {"timeout", "error"} THEN "get"
                                     ELSE "idle",
                              !.text = result,
                              !.consecutive_errors =
                                 consecutive_errors(stt.consecutive_errors, result)]
          /\ UNCHANGED <<_audio_queue, sequence_counter>>
       \/ \* line 297
          /\ stt.pc = "idle"
          /\ _send_message("PROCESSING_STATUS", "IDLE", "worker")
          /\ stt' = [stt EXCEPT !.pc = "get"]
          /\ UNCHANGED <<_audio_queue, _text_queue, sequence_counter>>
    /\ UNCHANGED <<_sentence_queue, nlp, extractor, text_buffer, sentence_counter,
                   sentence_buffer, chunks, dropped>>
    /\ UNCHANGED <<connVars, graphVars, pipeVars, parserVars, sideVars>>

\* a text of kind "sent" completes the sentence in the buffer and leaves
\* nothing behind; a text of kind "frag", three characters or more, completes
\* none, and neither does a text of kind "char", a single character
\* (_extract_complete_sentences returns no sentence of three characters or
\* less, and the buffer keeps the text). Lines 413-414: the buffer, a space
\* and the new text, stripped
Joined(buffer, new_text) ==
    IF buffer = "" /\ new_text = "char" THEN "char" ELSE "text"

_nlp_worker ==
    /\ \/ \* lines 357-416: a text is taken, NLP_ANALYZING reported, the text
          \* appended to the buffer and the buffer split
          /\ handler = "started"
          /\ nlp.pc = "get"
          /\ is_active
          /\ _text_queue # <<>>
          /\ sentence_counter < MaxTaken
          /\ _text_queue' = Tail(_text_queue)
          /\ _send_message("PROCESSING_STATUS", "NLP_ANALYZING", "worker")
          /\ text_buffer' = Joined(text_buffer, Head(_text_queue))
          /\ nlp' = [pc |-> IF Head(_text_queue) = "sent" THEN "final" ELSE "idle",
                     after |-> "idle"]
          /\ UNCHANGED <<_sentence_queue, sentence_counter>>
       \/ \* lines 375-409: no text for 2.5 s, the buffer is flushed if it has
          \* three characters or more
          /\ handler = "started"
          /\ nlp.pc = "get"
          /\ is_active
          /\ _text_queue = <<>>
          /\ text_buffer = "text"
          /\ nlp' = [pc |-> "final", after |-> "get"]
          /\ UNCHANGED <<_text_queue, _sentence_queue, text_buffer, sentence_counter,
                         _message_queue, websocket, enqueued>>
       \/ \* lines 419-428, 390-399, 442-452: STT_FINAL for the sentence
          /\ nlp.pc = "final"
          /\ handler = "started" \/ nlp.after = "done"
          /\ sentence_counter' = sentence_counter + 1
          /\ _send_message("STT_FINAL", sentence_counter + 1, "worker")
          /\ nlp' = [nlp EXCEPT !.pc = "put"]
          /\ UNCHANGED <<_text_queue, _sentence_queue, text_buffer>>
       \/ \* lines 430-431, 400-406, 453: the sentence is put on the queue
          /\ nlp.pc = "put"
          /\ handler = "started" \/ nlp.after = "done"
          /\ Len(_sentence_queue) < sentence_queue_maxsize
          /\ _sentence_queue' = Append(_sentence_queue, sentence_counter)
          /\ text_buffer' = ""
          /\ nlp' = [nlp EXCEPT !.pc = nlp.after]
          /\ UNCHANGED <<_text_queue, sentence_counter,
                         _message_queue, websocket, enqueued>>
       \/ \* line 433
          /\ handler = "started"
          /\ nlp.pc = "idle"
          /\ _send_message("PROCESSING_STATUS", "IDLE", "worker")
          /\ nlp' = [nlp EXCEPT !.pc = "get"]
          /\ UNCHANGED <<_text_queue, _sentence_queue, text_buffer, sentence_counter>>
       \/ \* lines 357, 435-441: the loop ends, or the task is cancelled where
          \* it waits; what the buffer still holds is flushed
          /\ nlp.pc # "done"
          /\ nlp.after # "done"
          /\ \/ nlp.pc = "get" /\ ~is_active
             \/ handler \in {"stopping", "disconnected", "closed"}
          /\ nlp' = [pc |-> IF text_buffer # "" THEN "final" ELSE "done",
                     after |-> "done"]
          /\ UNCHANGED <<_text_queue, _sentence_queue, text_buffer, sentence_counter,
                         _message_queue, websocket, enqueued>>
    /\ UNCHANGED <<_audio_queue, stt, extractor, sentence_buffer, chunks,
                   sequence_counter, dropped>>
    /\ UNCHANGED <<connVars, graphVars, pipeVars, parserVars, sideVars>>

\* lines 725-829 for a batch whose extraction gave the result r on the
\* session graph: the graph is stored, and a GRAPH_DELTA that adds or updates
\* an entity is sent
ExtractedWith(r) ==
    /\ local_cache' = r.state
    /\ uuid_counter' = r.uuid
    /\ redis_graph' = IF r.changed THEN r.state ELSE redis_graph
    /\ redis_snapshots' = IF r.changed /\ r.delta.to_version % SnapshotEvery = 0
                          THEN redis_snapshots \cup {r.delta.to_version}
                          ELSE redis_snapshots
    /\ IF r.delta.added_entities # <<>> \/ r.delta.updated_entities # <<>>
       THEN _send_message("GRAPH_DELTA", extractor.batch, "worker")
       ELSE UNCHANGED <<_message_queue, websocket, enqueued>>

_extraction_worker ==
    /\ handler = "started"
    /\ \/ \* lines 701-723: a sentence is taken, or none came for a second; a
          \* batch of min_batch sentences, or one older than 5 s, is due
          /\ extractor.pc = "get"
          /\ is_active
          /\ calls < MaxCalls
          /\ _sentence_queue # <<>> \/ sentence_buffer # <<>>
          /\ _sentence_queue' = IF _sentence_queue # <<>> THEN Tail(_sentence_queue)
                                ELSE _sentence_queue
          /\ \E late \in BOOLEAN :
                IF Len(sentence_buffer) + (IF _sentence_queue # <<>> THEN 1 ELSE 0)
                      >= min_batch \/ late
                THEN /\ _send_message("PROCESSING_STATUS", "EXTRACTING", "worker")
                     /\ extractor' =
                           [pc |-> "extract",
                            batch |-> IF _sentence_queue # <<>>
                                      THEN Append(sentence_buffer, Head(_sentence_queue))
                                      ELSE sentence_buffer]
                     /\ sentence_buffer' = <<>>
                ELSE /\ sentence_buffer' =
                           IF _sentence_queue # <<>>
                           THEN Append(sentence_buffer, Head(_sentence_queue))
                           ELSE sentence_buffer
                     /\ UNCHANGED <<extractor, _message_queue, websocket, enqueued>>
          /\ UNCHANGED <<local_cache, redis_graph, redis_snapshots, uuid_counter,
                         clock, calls>>
       \/ \* lines 725-829: the batch names one person
          /\ extractor.pc = "extract"
          /\ clock' = clock + 1
          /\ calls' = calls + 1
          /\ ExtractedWith(apply_extraction_with_id_map(
                IF local_cache # None THEN local_cache ELSE redis_graph,
                ExtractionResult(<<ExtractedEntity(e1, Lab_ab, "PERSON")>>, <<>>),
                clock + 1, uuid_counter))
          /\ extractor' = [extractor EXCEPT !.pc = "idle"]
          /\ UNCHANGED <<_sentence_queue, sentence_buffer>>
       \/ \* line 841
          /\ extractor.pc = "idle"
          /\ _send_message("PROCESSING_STATUS", "IDLE", "worker")
          /\ extractor' = [pc |-> "get", batch |-> <<>>]
          /\ UNCHANGED <<_sentence_queue, sentence_buffer, local_cache, redis_graph,
                         redis_snapshots, uuid_counter, clock, calls>>
    /\ UNCHANGED <<_audio_queue, _text_queue, stt, nlp, text_buffer, sentence_counter,
                   chunks, sequence_counter, dropped>>
    /\ UNCHANGED <<connVars, lock, pc, arg, pending, last, pipeVars, parserVars, sideVars>>
    /\ UNCHANGED held

InitWorkers == Started("none")
InitQueues == \E full \in {"audio", "text", "sentence", "message"} : Started(full)

\* the workers of a session that runs on
QueuesNext ==
    \/ process_audio_chunk
    \/ _stt_worker
    \/ _nlp_worker
    \/ _extraction_worker

\* the workers of a session that the client may end
WorkersNext ==
    \/ process_audio_chunk
    \/ _stt_worker
    \/ _nlp_worker
    \/ _extraction_worker
    \/ \E f \in {g \in ClientFrames : g.type = "END_SESSION"} : Receive(f)

\* the STT worker of a session while the speech service is out
InitStt == StartedWith("audio", "down")
SttNext ==
    \/ process_audio_chunk
    \/ _stt_worker

\* the workers of a session whose extraction has fallen behind, until the
\* client leaves: RealtimePipeline.stop clears the flag and cancels the tasks
InitStop == Started("sentence")
StopNext ==
    \/ QueuesNext
    \/ Disconnect

\* ------------------------------------------------------------------------
\* SessionState.add_audio_chunk: the audio a session keeps for feedback
\* ------------------------------------------------------------------------
MAX_ACCUMULATED_AUDIO_SIZE == 50 * 1024 * 1024
MAX_AUDIO_DURATION_MS == 10 * 60 * 1000

\* calls of add_audio_chunk, at most
MaxAdded == 6

\* len(audio_data) and payload.duration of the chunks a client sends
ChunkSizes == {20 * 1024 * 1024, 30 * 1024 * 1024}
ChunkDurations == {500, 300000}

RECURSIVE Sum(_)
Sum(sizes) == IF sizes = <<>> THEN 0 ELSE Head(sizes) + Sum(Tail(sizes))

\* lines 87-92: the oldest chunks go until the new one fits, or none is left
RECURSIVE EvictForSize(_, _)
EvictForSize(chunks_kept, chunk_size) ==
    IF chunks_kept # <<>> /\ Sum(chunks_kept) + chunk_size > MAX_ACCUMULATED_AUDIO_SIZE
    THEN EvictForSize(Tail(chunks_kept), chunk_size)
    ELSE chunks_kept

add_audio_chunk(chunk_size, duration_ms) ==
    LET sized == IF accumulated_audio_size + chunk_size > MAX_ACCUMULATED_AUDIO_SIZE
                 THEN EvictForSize(accumulated_audio, chunk_size)
                 ELSE accumulated_audio
        size_after == accumulated_audio_size - (Sum(accumulated_audio) - Sum(sized))
        late == total_audio_duration_ms >= MAX_AUDIO_DURATION_MS /\ sized # <<>>
        kept == IF late THEN Tail(sized) ELSE sized
    IN  /\ chunks < MaxAdded
        /\ chunks' = chunks + 1
        /\ accumulated_audio' = Append(kept, chunk_size)
        /\ accumulated_audio_size' =
              (IF late THEN size_after - Head(sized) ELSE size_after) + chunk_size
        /\ total_audio_duration_ms' =
              (IF late THEN Max2(0, total_audio_duration_ms - 500)
               ELSE total_audio_duration_ms) + duration_ms
        /\ UNCHANGED <<_audio_queue, _text_queue, _sentence_queue, stt, nlp, extractor,
                       text_buffer, sentence_counter, sentence_buffer,
                       sequence_counter, dropped>>
        /\ UNCHANGED <<connVars, _message_queue, websocket, enqueued,
                       graphVars, pipeVars, parserVars, context, redis_manager, reader, transcript>>

\* a session receives audio chunks
AudioNext ==
    \E chunk_size \in ChunkSizes, duration_ms \in ChunkDurations :
        add_audio_chunk(chunk_size, duration_ms)

\* ------------------------------------------------------------------------
\* select_relevant_context (gcp/vertex_ai.py): the entities and relations of
\* the session graph that go into the prompt
\* ------------------------------------------------------------------------
max_entities == 8
max_relations == 5

\* entities of the graph, and relations of the graph, at most
MaxGraph == 9
MaxRels == 6

\* step 1: the entities whose label occurs in the text, each id once
MentionedEntities(txt, entities) ==
    LET text_lower == lower(txt)
        at == SelectSeq(Positions(entities),
                        LAMBDA i :
                           /\ IsSubstring(lower(entities[i].label), text_lower)
                           /\ \A j \in 1..(i - 1) :
                                 entities[j].id = entities[i].id =>
                                    ~IsSubstring(lower(entities[j].label), text_lower))
    IN  [n \in 1..Len(at) |-> entities[at[n]]]

\* sorted(entities, key=lambda e: e.updated_at, reverse=True): the latest
\* first, entities of one time in the order they had
RECURSIVE recent_entities(_)
recent_entities(entities) ==
    IF entities = <<>> THEN <<>>
    ELSE LET m == FirstIn({i \in 1..Len(entities) :
                              \A j \in 1..Len(entities) :
                                 entities[j].updated_at <= entities[i].updated_at})
         IN  <<entities[m]>> \o
             recent_entities(SubSeq(entities, 1, m - 1) \o
                             SubSeq(entities, m + 1, Len(entities)))

\* steps 1 and 2: the mentioned entities, then the latest of the others for
\* the slots that remain
select_entities(txt, entities, maxEntities) ==
    LET selected == MentionedEntities(txt, entities)
        seen_ids == {selected[i].id : i \in 1..Len(selected)}
        remaining_slots == maxEntities - Len(selected)
        others == recent_entities(SelectSeq(entities, LAMBDA e : e.id \notin seen_ids))
    IN  IF remaining_slots > 0
        THEN selected \o SubSeq(others, 1, Min2(remaining_slots, Len(others)))
        ELSE selected

\* step 3: the first relations with an endpoint among the selected entities
select_relations(selected, relations, maxRelations) ==
    LET seen_ids == {selected[i].id : i \in 1..Len(selected)}
        linked == SelectSeq(relations,
                            LAMBDA r : r.source \in seen_ids \/ r.target \in seen_ids)
    IN  SubSeq(linked, 1, Min2(maxRelations, Len(linked)))

select_relevant_context(txt, entities, relations, maxEntities, maxRelations) ==
    IF entities = <<>> THEN <<(<<>>), (<<>>)>>
    ELSE LET selected == select_entities(txt, entities, maxEntities)
         IN  <<selected, select_relations(selected, relations, maxRelations)>>

\* graphs of n entities with one-letter labels, updated one after the other
\* or all at once; texts that mention some of them, in capitals where the
\* label is in small letters; relations between neighbours from the fourth
\* entity on, the last of them with an end outside the graph
ContextLabels == <<"a", "b", "c", "d", "e", "f", "g", "h", "i", "j", "k">>
ContextWords == <<"A", "B", "c", "d", "e", "f", "g", "h", "i", "j", "k">>

ContextInput(n, S, rising, r) ==
    [text |-> [i \in 1..n |-> IF i \in S THEN ContextWords[i] ELSE " "],
     entities |-> [i \in 1..n |->
                      GraphEntity(i, <<ContextLabels[i]>>, "PERSON", 0,
                                  IF rising THEN i ELSE 0)],
     relations |-> [k \in 1..r |-> GraphRelation(k, k + 3, k + 4, <<"k">>, 0)],
     called |-> FALSE,
     selected_entities |-> <<>>,
     selected_relations |-> <<>>]

\* the extraction builds its prompt: select_relevant_context is called
select_context ==
    /\ ~context.called
    /\ LET r == select_relevant_context(context.text, context.entities,
                                        context.relations, max_entities,
                                        max_relations)
       IN  context' = [context EXCEPT !.called = TRUE,
                                      !.selected_entities = r[1],
                                      !.selected_relations = r[2]]
    /\ UNCHANGED <<graphVars, pipeVars, parserVars, sessVars, audioVars, redis_manager, reader, transcript>>

InitContext ==
    /\ GraphInit /\ PipeInit /\ ParserIdle /\ SessIdle
    /\ AudioIdle
    /\ redis_manager = Constructed
    /\ reader = NoReader
    /\ transcript = NoTranscript
    /\ \E n \in 0..MaxGraph :
          \E S \in SUBSET (1..n), rising \in BOOLEAN, r \in 0..MaxRels :
              context = ContextInput(n, S, rising, r)
ContextNext == select_context

Init == GraphInit /\ PipeInit /\ ParserIdle /\ SessIdle /\ SideIdle
Next == GraphNext
Spec == Init /\ [][Next]_vars

\* the callers of apply_extraction, a reader that keeps what get_state
\* returned, and resets of the session
SpecReader == Init /\ [][ReaderNext]_vars

SpecStop == InitStop /\ [][StopNext]_vars

SpecOutage == Init /\ [][OutageNext]_vars
SpecStt == InitStt /\ [][SttNext]_vars
SpecContext == InitContext /\ [][ContextNext]_vars
SpecAudio == Init /\ [][AudioNext]_vars

\* the connections of one session: START_SESSION, extraction, delivery
SpecPipeline == Init /\ [][PipeNext]_vars

\* one LLM output streamed into a fresh parser, cut into chunks in every way
InitParser ==
    GraphInit /\ redis_graph = None /\ PipeInit /\ ParserInit /\ SessIdle /\ SideIdle
SpecParser == InitParser /\ [][ParserNext]_vars

\* any sequence of feed calls on one parser, chunks fed again included, on
\* the outputs of at most MaxFeedLen tokens
InitFeeds == InitParser /\ Len(text) <= MaxFeedLen
SpecFeeds == InitFeeds /\ [][FeedsNext]_vars

\* one connection from accept to close, over a graph persisted earlier
InitSession == Init /\ redis_graph = PersistedGraph
SpecSession == InitSession /\ [][SessionNext]_vars
SpecSender == InitSession /\ [][SenderNext]_vars

\* the workers of a session in progress, which the client may end
SpecWorkers == InitWorkers /\ [][WorkersNext]_vars

\* the workers of a session in progress one of whose queues is full
SpecQueues == InitQueues /\ [][QueuesNext]_vars

\* C4: a client that starts from GRAPH_FULL and applies the GRAPH_DELTA frames
\* it receives holds, after each frame, the entities, relations and version
\* of the server's graph after the call that produced the frame, and each
\* frame's fromVersion is the version the client held before it (the
\* toVersion of the frame before, or the version of GRAPH_FULL).
C4_ClientReconstructs ==
    \A c \in Tasks :
        delivered[c].n > 0 =>
            /\ delivered[c].delta.from_version = delivered[c].before.version
            /\ client[c].version = delivered[c].server.version
            /\ client[c].entities = delivered[c].server.entities
            /\ client[c].relations = delivered[c].server.relations


\* ------------------------------------------------------------------------
\* Properties of apply_extraction
\* ------------------------------------------------------------------------
Returned == last.n > 0

\* no call is between taking the lock and returning
Quiet == lock = 0

Ids(entities) == {entities[i].id : i \in 1..Len(entities)}

DeltaIsEmpty(delta) ==
    /\ delta.added_entities = <<>>
    /\ delta.updated_entities = <<>>
    /\ delta.added_relations = <<>>

\* C1: every returned delta has toVersion = fromVersion + 1 and fromVersion is
\* the version get_state gave under the lock; when the call returns, the
\* cached and the persisted graph have version toVersion; and no step of any
\* interleaving of calls lowers the version of the session graph.
C1_Step ==
    /\ last'.n # last.n =>
          /\ last'.delta.to_version = last'.delta.from_version + 1
          /\ last'.delta.from_version = last'.seen_version
          /\ local_cache'.version = last'.delta.to_version
          /\ redis_graph'.version = last'.delta.to_version
    /\ local_cache'.version >= local_cache.version

C1_DeltaVersions == [][C1_Step]_vars

\* a call that had to wait for the lock has returned after another call
C1_Witness ==
    /\ last.n >= 2
    /\ last.waited
    /\ Quiet
    /\ local_cache.version = last.delta.to_version

\* C2: apply_extraction raises the graph version by exactly 1 when the
\* extraction adds or updates something and leaves it (and the persisted
\* version) unchanged when the extraction changes nothing.
C2_VersionBumpOnlyOnChange ==
    Returned =>
        IF DeltaIsEmpty(last.delta)
        THEN /\ last.post.version = last.pre.version
             /\ last.delta.to_version = last.delta.from_version
        ELSE last.post.version = last.pre.version + 1

\* an endpoint string that step 2 cannot resolve: not a temporary id of the
\* extraction, not an entity id, not the normalised label of an entity
Unresolvable(ref, extraction, entities) ==
    /\ \A k \in 1..Len(extraction.entities) : extraction.entities[k].id # ref
    /\ ref \notin Ids(entities)
    /\ \A i \in 1..Len(entities) :
          _normalize_label(entities[i].label) # _normalize_label(ref)

Skipped(r, extraction, entities) ==
    \/ Unresolvable(r.source, extraction, entities)
    \/ Unresolvable(r.target, extraction, entities)

EndpointsPresent(graph) ==
    \A i \in 1..Len(graph.relations) :
        /\ graph.relations[i].source \in Ids(graph.entities)
        /\ graph.relations[i].target \in Ids(graph.entities)

\* C3: in every graph reached from the empty graph each relation's source and
\* target are ids of entities of the same graph, and a call whose extracted
\* relations all have an unresolvable endpoint adds no relation to the graph
\* or the delta; a call adds at most one relation per resolvable one.
C3_EndpointsPresent ==
    /\ EndpointsPresent(local_cache)
    /\ redis_graph # None => EndpointsPresent(redis_graph)
    /\ Returned =>
          LET x == last.extraction
              ok == {k \in 1..Len(x.relations) :
                        ~Skipped(x.relations[k], x, last.post.entities)}
          IN /\ Len(last.delta.added_relations) <= Cardinality(ok)
             /\ Len(last.post.relations) =
                   Len(last.pre.relations) + Len(last.delta.added_relations)
             /\ \A i \in 1..Len(last.delta.added_relations) :
                   /\ last.delta.added_relations[i].source \in Ids(last.post.entities)
                   /\ last.delta.added_relations[i].target \in Ids(last.post.entities)

\* a graph that holds a relation, after a call that skipped an unresolvable
\* relation
C3_Witness ==
    /\ Returned
    /\ last.post.relations # <<>>
    /\ last.extraction.relations # <<>>
    /\ \A k \in 1..Len(last.extraction.relations) :
          Skipped(last.extraction.relations[k], last.extraction, last.post.entities)
    /\ last.delta.added_relations = <<>>

\* C5: applying the same ExtractionResult twice in a row creates no new
\* entity and no new relation the second time, for every extraction result
\* (labels of punctuation only included).
C5_Step ==
    (last'.n = last.n + 1 /\ Returned /\ last'.extraction = last.extraction) =>
        /\ last'.delta.added_entities = <<>>
        /\ last'.delta.added_relations = <<>>
        /\ Ids(last'.post.entities) = Ids(last.post.entities)

C5_SecondApplicationAddsNothing == [][C5_Step]_vars

\* what is left of a label when letter case, whitespace and punctuation are
\* ignored
Fold(label) == SelectSeq(lower(label), LAMBDA c : c \notin NonWordChars)

AllLabels ==
    {Lab_ab, Lab_Ab, Lab_A_b, Lab_dot, Lab_bang, Lab_abc, Lab_abcd, Lab_abcx, Lab_zz}

\* C6: _normalize_label is idempotent, and an extracted entity whose label
\* differs from the label of an entity of the graph only in case, whitespace
\* or punctuation is mapped to an existing entity: the call adds no entity
\* with such a label.
C6_LabelsReconciled ==
    /\ \A l \in AllLabels :
          _normalize_label(_normalize_label(l)) = _normalize_label(l)
    /\ Returned =>
          \A i \in 1..Len(last.delta.added_entities) :
              \A j \in 1..Len(last.pre.entities) :
                  last.delta.added_entities[i].label # last.pre.entities[j].label
                      => Fold(last.delta.added_entities[i].label)
                             # Fold(last.pre.entities[j].label)

\* C7: no step changes the id, type or created-at of an entity of the graph,
\* and a label is replaced only by a strictly longer label of the extraction
\* being applied.
C7_Step ==
    \A i \in 1..Len(local_cache.entities) :
        /\ i <= Len(local_cache'.entities)
        /\ LET old == local_cache.entities[i]
               new == local_cache'.entities[i]
           IN /\ new.id = old.id
              /\ new.type = old.type
              /\ new.created_at = old.created_at
              /\ new.updated_at >= new.created_at
              /\ new.label # old.label =>
                    /\ Len(new.label) > Len(old.label)
                    /\ \E k \in 1..Len(arg'[lock'].entities) :
                          arg'[lock'].entities[k].label = new.label

C7_EntityIdentityStable == [][C7_Step]_vars

\* a call has replaced the label of an entity by a longer one of another type
\* and kept the entity's type
C7_Witness ==
    /\ Returned
    /\ \E i \in 1..Len(last.delta.updated_entities) :
          \E j \in 1..Len(last.pre.entities) :
              \E k \in 1..Len(last.extraction.entities) :
                  LET u == last.delta.updated_entities[i]
                      old == last.pre.entities[j]
                      x == last.extraction.entities[k]
                  IN /\ u.id = old.id
                     /\ u.label = x.label
                     /\ Len(u.label) > Len(old.label)
                     /\ x.type # old.type
                     /\ u.type = old.type
                     /\ u.created_at < u.updated_at

\* the temporary ids of an extraction
TempIds(extraction) ==
    {extraction.entities[k].id : k \in 1..Len(extraction.entities)}

\* the ids of the entities whose normalised label is that of ref
IdsByLabel(ref, entities) ==
    {entities[i].id : i \in {j \in 1..Len(entities) :
                                _normalize_label(entities[j].label) = _normalize_label(ref)}}

\* an endpoint named by the label of an entity of the graph, not by a
\* temporary id or an entity id
LabelNamed(ref, extraction, entities) ==
    /\ ref \notin TempIds(extraction)
    /\ ref \notin Ids(entities)
    /\ IdsByLabel(ref, entities) # {}

\* relation phrases that the duplicate check takes for the same
SamePhrase(p, q) ==
    _normalize_relation(p) = _normalize_relation(q)

SimilarPhrase(p, q) ==
    SimAbove(_calculate_similarity(_normalize_relation(p), _normalize_relation(q)), 7)

NoSimilarRelations(graph) ==
    \A i \in 1..Len(graph.relations) :
        \A j \in 1..Len(graph.relations) :
            LET p == graph.relations[i]
                q == graph.relations[j]
            IN i < j =>
                  /\ (p.source = q.source /\ p.target = q.target) =>
                        /\ ~SamePhrase(p.relation, q.relation)
                        /\ ~SimilarPhrase(p.relation, q.relation)
                  /\ (p.source = q.target /\ p.target = q.source) =>
                        ~SimilarPhrase(p.relation, q.relation)

\* C9: no graph holds two relations with the same source and target and equal
\* normalised phrases, nor two relations between the same two entities, in
\* either direction, whose normalised phrases have similarity above 0.7;
\* relations added in one call included.
C9_NoDuplicateRelations ==
    /\ NoSimilarRelations(local_cache)
    /\ redis_graph # None => NoSimilarRelations(redis_graph)

\* a call has resolved a relation between two entities of the graph that the
\* graph holds in the other direction with a similar, not equal, phrase, and
\* has added nothing
C9_Witness ==
    /\ Returned
    /\ Len(last.pre.relations) >= 1
    /\ last.delta.added_relations = <<>>
    /\ \E k \in 1..Len(last.extraction.relations) :
          LET r == last.extraction.relations[k]
          IN /\ ~Skipped(r, last.extraction, last.post.entities)
             /\ \E j \in 1..Len(last.pre.relations) :
                   /\ ~SamePhrase(last.pre.relations[j].relation, r.relation)
                   /\ SimilarPhrase(last.pre.relations[j].relation, r.relation)


\* ------------------------------------------------------------------------
\* Properties of PartialJSONParser
\* ------------------------------------------------------------------------
\* the whole text has been fed, in one chunk or in several
AllFed == text # <<>> /\ rest = <<>>

\* what a fresh parser holds after it is fed the whole text as one chunk
SingleChunk == get_result(feed(PartialJSONParser, text))

\* C10: when the whole text has been fed to a fresh parser, however it was
\* cut into chunks, the entities and relations the feed calls returned,
\* taken together, and those of get_result are the entities and relations
\* a fresh parser yields when it is fed the text as a single chunk.
C10_ChunkingYieldsSameResult ==
    AllFed =>
        /\ Range(get_result(Parser).entities) = Range(SingleChunk.entities)
        /\ Range(get_result(Parser).relations) = Range(SingleChunk.relations)
        /\ fed.entities = Range(SingleChunk.entities)
        /\ fed.relations = Range(SingleChunk.relations)

Distinct(s) == \A i, j \in 1..Len(s) : s[i] = s[j] => i = j

EntityIds(entities) == [i \in 1..Len(entities) |-> entities[i].id]

RelationKeys(relations) == [i \in 1..Len(relations) |-> rel_key(relations[i])]

\* C11: over the feed calls made on one parser, chunks fed again included, no
\* entity id and no (source, target, relation) triple is returned twice, and
\* get_result is the concatenation, in order, of what the feed calls returned.
C11_ReturnedOnce ==
    /\ Distinct(EntityIds(feeds.entities))
    /\ Distinct(RelationKeys(feeds.relations))
    /\ get_result(Parser).entities = feeds.entities
    /\ get_result(Parser).relations = feeds.relations

\* the three tokens of an entity object were fed again, so that the buffer
\* holds the object twice, and the feed calls have returned an entity
C11_Witness ==
    /\ feeds.again >= 1
    /\ Refed = 3
    /\ rest = <<>>
    /\ Len(feeds.entities) >= 1
    /\ \E i \in 1..(Len(_buffer) - 5) :
          /\ SubSeq(_buffer, i, i + 2) = SubSeq(_buffer, i + 3, i + 5)
          /\ _buffer[i + 1] \in EntityBodies

\* ------------------------------------------------------------------------
\* The outbound path
\* ------------------------------------------------------------------------
\* the frames the sender task wrote to the socket, in order
SenderWritten ==
    LET w == SelectSeq(websocket, LAMBDA x : x.by = "sender")
    IN  [i \in 1..Len(w) |-> [type |-> w[i].type, n |-> w[i].n,
                               payload |-> w[i].payload]]

\* C12: the frames the sender writes to the socket are exactly the frames
\* put on the outbound queue, in the order they were put, each once: what it
\* has written, then what it has taken and not yet written, then what is
\* still on the queue, is the sequence of frames enqueued; this covers the
\* batches of up to ten frames and the frames drained when the sender stops
C12_SenderWritesEnqueued ==
    SenderWritten \o messages_to_send \o _message_queue = enqueued

\* C13: every frame other than PING and PONG reaches the socket through the
\* outbound queue and the sender task: each such frame on the socket was put
\* on the queue and was written by the sender, and by no other task
C13_OnlyTheSenderWrites ==
    \A i \in 1..Len(websocket) :
        websocket[i].type \notin _DIRECT_SEND_TYPES =>
            /\ websocket[i].by = "sender"
            /\ [type |-> websocket[i].type, n |-> websocket[i].n,
                payload |-> websocket[i].payload] \in Range(enqueued)

\* ------------------------------------------------------------------------
\* The graph frames of a connection
\* ------------------------------------------------------------------------
\* the entity ids a connection's client has been sent before its j-th frame
KnownBefore(c, j) ==
    UNION {Ids(outbound[c][i].delta.added_entities) : i \in 1..(j - 1)}

\* C14: for each extraction of the extraction worker, the GRAPH_DELTA frames
\* with the entities applied during streaming are enqueued for the client
\* before the GRAPH_DELTA frame with that extraction's relations, and each
\* endpoint of a relation in that frame is an entity of the initial graph
\* (GRAPH_FULL) or of an earlier delta sent on the connection
C14_EntitiesBeforeRelations ==
    \A c \in Tasks : \A j \in 1..Len(outbound[c]) :
        outbound[c][j].phase = "final" =>
            /\ \A i \in 1..Len(outbound[c]) :
                  (/\ outbound[c][i].phase = "partial"
                   /\ outbound[c][i].run = outbound[c][j].run) => i < j
            /\ \A k \in 1..Len(outbound[c][j].delta.added_relations) :
                  /\ outbound[c][j].delta.added_relations[k].source
                        \in KnownBefore(c, j)
                  /\ outbound[c][j].delta.added_relations[k].target
                        \in KnownBefore(c, j)

\* ------------------------------------------------------------------------
\* The frames of the workers
\* ------------------------------------------------------------------------
\* the sentences the NLP worker has put on the sentence queue
PutSentences ==
    {s \in 1..sentence_counter : ~(nlp.pc = "put" /\ s = sentence_counter)}

\* the STT_FINAL frame of sentence s is among the first j frames enqueued
FinalEnqueued(s, j) ==
    \E i \in 1..j : enqueued[i].type = "STT_FINAL" /\ enqueued[i].payload = s

\* C15: the STT_FINAL frame of every sentence the NLP worker has put on the
\* sentence queue has been enqueued on the outbound queue, and it precedes
\* there every GRAPH_DELTA frame of a batch that contains the sentence
C15_FinalBeforeDelta ==
    /\ \A s \in PutSentences : FinalEnqueued(s, Len(enqueued))
    /\ \A j \in 1..Len(enqueued) :
          enqueued[j].type = "GRAPH_DELTA" =>
              \A k \in 1..Len(enqueued[j].payload) :
                  FinalEnqueued(enqueued[j].payload[k], j - 1)

\* the version of the session graph as the extraction worker reads it
SessionVersion == (IF local_cache # None THEN local_cache ELSE redis_graph).version

\* C18: the audio, text, sentence and outbound queues never hold more than
\* 100, 100, 100 and 200 items; a chunk that was dropped because the audio
\* queue stayed full is not on the queue then or later, while later chunks
\* are still enqueued; and no step decreases the version of the session graph
C18_QueuesBounded ==
    /\ [](/\ Len(_audio_queue) <= audio_queue_maxsize
          /\ Len(_text_queue) <= text_queue_maxsize
          /\ Len(_sentence_queue) <= sentence_queue_maxsize
          /\ Len(_message_queue) <= message_queue_maxsize
          /\ dropped \cap Range(_audio_queue) = {})
    /\ [][SessionVersion' >= SessionVersion]_vars

\* a chunk was dropped, a later one is on the audio queue, which is full
\* again, and an extraction has raised the version of the graph
C18_Witness ==
    /\ \E d \in dropped : \E c \in Range(_audio_queue) : c > d
    /\ Len(_audio_queue) = audio_queue_maxsize
    /\ SessionVersion > PersistedGraph.version

\* ------------------------------------------------------------------------
\* The end of a connection
\* ------------------------------------------------------------------------
\* what the server does on a connection without a frame from the client
ServerNext ==
    \/ _message_sender_worker
    \/ _heartbeat_worker
    \/ Closed

\* C16: once the heartbeat has found the client silent for more than 45 s
\* and marked the session inactive, the server on its own, without a further
\* frame from the client, comes to rest only with the handler out of its
\* receive loop and closed and the session entry removed; and the persisted
\* graph is not purged
C16_TimeoutClosesSession ==
    heartbeat = "timed_out" =>
        /\ ~is_active
        /\ redis_graph = PersistedGraph
        /\ ~ENABLED ServerNext => (handler = "closed" /\ ~_active_sessions)

\* the client has sent END_SESSION with clearSession true on the connection
ClearRequested ==
    \E i \in 1..Len(received) :
        received[i].type = "END_SESSION" /\ received[i].clearSession

\* C17: when the connection has closed, the persisted graph of the session
\* has been deleted from the cache if and only if the client sent an
\* END_SESSION frame with clearSession true on the connection
C17_PurgedIffRequested ==
    handler = "closed" => ((redis_graph = None) <=> ClearRequested)

\* ------------------------------------------------------------------------
\* One sentence, two entities and a relation between them
\* ------------------------------------------------------------------------
\* the extraction of the sentence
TwoEntitiesOneRelation ==
    ExtractionResult(<<ExtractedEntity(e1, Lab_ab, "PERSON"),
                       ExtractedEntity(e2, Lab_abcd, "PERSON")>>,
                     <<ExtractedRelation(e1, e2, Rel_a_cd)>>)

\* connection c is the only one of a fresh session, and its worker has
\* finished its first extraction, which was that of the sentence
SentenceExtracted(c) ==
    /\ \A d \in Tasks \ {c} : outbound[d] = <<>>
    /\ outbound[c] # <<>>
    /\ outbound[c][1].delta.to_version = 0
    /\ worker[c].run = 1
    /\ worker[c].phase = "idle"
    /\ worker[c].extraction = TwoEntitiesOneRelation

\* the entities and the relations added by the frames i..j of connection c
AddedEntities(c, i, j) ==
    UNION {Range(outbound[c][k].delta.added_entities) : k \in i..j}
AddedRelations(c, i, j) ==
    UNION {Range(outbound[c][k].delta.added_relations) : k \in i..j}

EmployedByAfterWorksAt ==
    /\ Returned
    /\ last.extraction =
          ExtractionResult(<<ExtractedEntity(e1, Lab_ab, "PERSON"),
                             ExtractedEntity(e2, Lab_zz, "ORGANIZATION")>>,
                           <<ExtractedRelation(e1, e2, Rel_employed_by)>>)
    /\ last.pre.relations # <<>>
    /\ \A i \in 1..Len(last.pre.relations) :
          /\ last.pre.relations[i].relation = Rel_works_at
          /\ \E a, b \in Range(last.pre.entities) :
                /\ a.label = Lab_ab
                /\ b.label = Lab_zz
                /\ last.pre.relations[i].source = a.id
                /\ last.pre.relations[i].target = b.id

\* C20: when the graph holds the relation "works at" from A to B and an
\* extraction yields the relation "employed by" from A to B, apply_extraction
\* takes it for a duplicate and the delta it returns adds no relation
C20_EmployedBySuppressed ==
    EmployedByAfterWorksAt => last.delta.added_relations = <<>>

\* C20 as the code has it: the similarity of "works_at" and "employed_by" is
\* not above 0.7, the relation is no duplicate and the delta adds it
C20_EmployedByAdded ==
    EmployedByAfterWorksAt =>
        /\ ~SimAbove(_calculate_similarity(_normalize_relation(Rel_works_at),
                                           _normalize_relation(Rel_employed_by)), 7)
        /\ Len(last.delta.added_relations) = 1
        /\ last.delta.added_relations[1].relation = Rel_employed_by
        /\ last.delta.added_relations[1].source = last.pre.relations[1].source
        /\ last.delta.added_relations[1].target = last.pre.relations[1].target

\* such a call has returned, and its delta adds a relation
C20_Witness ==
    EmployedByAfterWorksAt /\ Len(last.delta.added_relations) = 1

\* ------------------------------------------------------------------------
\* One company, two languages
\* ------------------------------------------------------------------------
\* the call that returned last was given the ORGANIZATION entity "Samsung",
\* on a graph whose entities are the ORGANIZATION entity X of the Korean name
\* and no other
SamsungAfterKoreanName ==
    /\ Returned
    /\ last.extraction =
          ExtractionResult(<<ExtractedEntity(e1, Lab_Samsung, "ORGANIZATION")>>, <<>>)
    /\ Len(last.pre.entities) = 1
    /\ last.pre.entities[1].label = Lab_samseongjeonja
    /\ last.pre.entities[1].type = "ORGANIZATION"

\* C21: when the graph holds the ORGANIZATION entity X with the Korean name
\* and an extraction yields the ORGANIZATION entity "Samsung", the extracted
\* entity is mapped to X: the delta adds no entity and updates none
C21_SamsungMapped ==
    SamsungAfterKoreanName =>
        /\ last.delta.added_entities = <<>>
        /\ last.delta.updated_entities = <<>>

\* C21 as the code has it: the two normalised labels are not equal, neither
\* contains the other and their similarity is 0, so no rule of
\* _find_similar_entity matches: "Samsung" becomes a new entity beside X,
\* which is left as it was
C21_SamsungAdded ==
    SamsungAfterKoreanName =>
        /\ _calculate_similarity(_normalize_label(Lab_Samsung),
                                 _normalize_label(Lab_samseongjeonja)).num = 0
        /\ Len(last.delta.added_entities) = 1
        /\ last.delta.added_entities[1].label = Lab_Samsung
        /\ last.delta.added_entities[1].id # last.pre.entities[1].id
        /\ last.delta.updated_entities = <<>>
        /\ last.post.entities = Append(last.pre.entities, last.delta.added_entities[1])

\* such a call has returned and its delta adds an entity
C21_Witness ==
    SamsungAfterKoreanName /\ Len(last.delta.added_entities) = 1

\* ------------------------------------------------------------------------
\* A transcript of one character
\* ------------------------------------------------------------------------
\* C22: while the buffer of the NLP worker holds a single character, the
\* whole transcript so far, no step of the worker finalizes a sentence: the
\* sentence counter is not raised for an STT_FINAL frame and nothing is put
\* on the sentence queue, in the loop, on the force flush or at shutdown
C22_SingleCharacterNotFinalized ==
    [][text_buffer = "char" =>
          /\ sentence_counter' = sentence_counter
          /\ Len(_sentence_queue') <= Len(_sentence_queue)]_vars

\* ------------------------------------------------------------------------
\* What get_state returns
\* ------------------------------------------------------------------------
\* the state object the reader holds, as it is now
HeldNow == IF held.live THEN local_cache ELSE held.left

\* C23: the state get_state returned is a snapshot: whatever apply_extraction
\* and reset_state do later, the object the reader was given keeps the
\* entities, the relations and the version it had when it was returned
C23_DefensiveSnapshot ==
    held # NoHeld =>
        /\ HeldNow.entities = held.returned.entities
        /\ HeldNow.relations = held.returned.relations
        /\ HeldNow.version = held.returned.version

\* C24: once the session-active flag is cleared no worker waits without a
\* timeout on a queue: the NLP worker, until it has terminated, can always
\* take a step, also at a put on a sentence queue that is full, so that it
\* terminates and the gather of RealtimePipeline.stop returns
C24_NlpNeverBlocked ==
    ~is_active /\ nlp.pc # "done" => ENABLED _nlp_worker

\* C25: a call of apply_extraction that fails on a cache write leaves the
\* in-memory graph as get_state returned it: when the call raises to its
\* caller instead of returning the delta, no entity or relation has been
\* added and the version has not been bumped
C25_FailSoft ==
    [][\A t \in Tasks :
          pc[t] = "save" /\ pc'[t] = "raised" =>
              /\ local_cache'.entities = pending[t].pre.entities
              /\ local_cache'.relations = pending[t].pre.relations
              /\ local_cache'.version = pending[t].pre.version]_vars

\* C26: the parser has returned an entity for every complete object literal
\* of the "entities" array it reads that has the three fields id, label and
\* type, in whatever order the object writes them
EntitiesArray == ArrayAfter(_extract_json_content(_buffer), "E")
C26_AnyFieldOrder ==
    \A i \in 2..(Len(EntitiesArray) - 1) :
        /\ EntitiesArray[i - 1] = "{"
        /\ EntitiesArray[i] \in EntityBodies \cup ReorderedBodies
        /\ EntitiesArray[i + 1] = "}"
        => \E n \in 1..Len(_parsed_entities) :
              _parsed_entities[n].id = EntityOf(EntitiesArray[i]).id

\* C27: every SUBMIT_FEEDBACK frame received on a started session has been
\* answered with exactly one FEEDBACK_RESULT frame, also one that arrives
\* after END_SESSION in reply to REQUEST_FEEDBACK
FeedbackSubmitted ==
    {i \in 2..Len(received) :
        /\ received[i].type = "SUBMIT_FEEDBACK"
        /\ \E j \in 1..(i - 1) : received[j].type = "START_SESSION"}
FeedbackResults == {k \in 1..Len(websocket) : websocket[k].type = "FEEDBACK_RESULT"}
C27_FeedbackAnswered ==
    Cardinality(FeedbackSubmitted) = Cardinality(FeedbackResults)

\* C28: a frame whose type is not a known kind, received by a running
\* session, puts no frame on the socket and counts as client activity
UnknownReceived ==
    /\ Len(received') = Len(received) + 1
    /\ received'[Len(received')].type \notin WSMessageType
    /\ handler = "started"
    /\ is_active
C28_UnknownFrameIgnored ==
    [][UnknownReceived =>
          /\ websocket' = websocket
          /\ _last_client_activity' = now]_vars

\* C29: the consecutive-error counter of the STT worker never exceeds ten,
\* whether the failures are timeouts, exceptions or a mix
C29_ErrorsAtMostTen == stt.consecutive_errors <= MAX_CONSECUTIVE_ERRORS

\* C30: a recognizer result with text is put on the text queue whenever that
\* queue has room, whether or not the outbound queue accepted the
\* STT_PARTIAL frame
Transcribed ==
    /\ stt.pc = "transcribe"
    /\ stt'.pc = "idle"
    /\ stt'.text \in {"char", "frag", "sent"}
C30_TextReachesNlp ==
    [][Transcribed /\ Len(_text_queue) < text_queue_maxsize =>
          _text_queue' = Append(_text_queue, stt'.text)]_vars

\* C31: no sentence is put on the sentence queue for extraction without its
\* STT_FINAL frame, numbered by the sentence counter, having been queued for
\* the client
C31_FinalWithEverySentence ==
    [][Len(_sentence_queue') > Len(_sentence_queue) =>
          \E k \in 1..Len(enqueued') :
              /\ enqueued'[k].type = "STT_FINAL"
              /\ enqueued'[k].payload = _sentence_queue'[Len(_sentence_queue')]]_vars

\* C32: select_relevant_context returns at most 8 entities and at most 5
\* relations, and every relation it returns has an endpoint among the
\* entities it returns
C32_ContextBounded ==
    context.called =>
        /\ Len(context.selected_entities) <= max_entities
        /\ Len(context.selected_relations) <= max_relations
        /\ \A k \in 1..Len(context.selected_relations) :
              \E i \in 1..Len(context.selected_entities) :
                  context.selected_entities[i].id \in
                      {context.selected_relations[k].source,
                       context.selected_relations[k].target}

\* C33: the audio a session accumulates is bounded: its size never exceeds
\* MAX_ACCUMULATED_AUDIO_SIZE and its duration never exceeds
\* MAX_AUDIO_DURATION_MS by more than the duration of one chunk
LongestChunk == CHOOSE d \in ChunkDurations : \A e \in ChunkDurations : e <= d
C33_AudioBounded ==
    /\ accumulated_audio_size <= MAX_ACCUMULATED_AUDIO_SIZE
    /\ total_audio_duration_ms <= MAX_AUDIO_DURATION_MS + LongestChunk

\* ---------------------------------------------------------------------
\* RedisManager: connect, _background_reconnect, disconnect
\* (src/servers/api/redis_client.py:28-121)
\* ---------------------------------------------------------------------

\* max_retries of connect(retry=True), redis_client.py:39
max_retries == 10

\* iterations of _background_reconnect's loop that are followed
MaxChecks == 3

\* the cache starts or stops answering
Reach ==
    /\ redis_manager.phase # "disconnected"
    /\ redis_manager' = [redis_manager EXCEPT !.reachable = ~@]
    /\ UNCHANGED <<graphVars, pipeVars, parserVars, sessVars, context, audioVars, reader, transcript>>

\* one pass of the loop of connect(retry=True), lines 42-97: the client
\* object is assigned before the ping (45-58); a ping that answers starts the
\* background task and returns (61-69); a timeout or connection error sleeps
\* and tries again, and after the last attempt is only logged (71-88); any
\* other exception returns at once (89-97)
connect ==
    /\ redis_manager.phase \in {"constructed", "connecting"}
    /\ redis_manager.attempt < max_retries
    /\ IF redis_manager.reachable
       THEN redis_manager' =
                [redis_manager EXCEPT !.phase = "returned", !._client = TRUE,
                                      !._should_reconnect = TRUE,
                                      !._connection_task = TRUE]
       ELSE \E assigned \in BOOLEAN, error \in {"ConnectionError", "Exception"} :
                redis_manager' =
                    [redis_manager EXCEPT
                        !._client = @ \/ assigned,
                        !.attempt = @ + 1,
                        !.phase = IF error = "ConnectionError"
                                     /\ redis_manager.attempt < max_retries - 1
                                  THEN "connecting" ELSE "returned"]
    /\ UNCHANGED <<graphVars, pipeVars, parserVars, sessVars, context, audioVars, reader, transcript>>

\* one iteration of _background_reconnect, lines 115-121: without a client,
\* or when the ping fails, a single connect(retry=False); then ten seconds
\* of sleep
_background_reconnect ==
    /\ redis_manager._connection_task
    /\ redis_manager._should_reconnect
    /\ redis_manager.checks < MaxChecks
    /\ redis_manager' =
           [redis_manager EXCEPT !.checks = @ + 1,
                                 !._client = @ \/ redis_manager.reachable]
    /\ UNCHANGED <<graphVars, pipeVars, parserVars, sessVars, context, audioVars, reader, transcript>>

\* disconnect, lines 100-113
disconnect ==
    /\ redis_manager.phase = "returned"
    /\ redis_manager' =
           [redis_manager EXCEPT !.phase = "disconnected",
                                 !._should_reconnect = FALSE,
                                 !._connection_task = FALSE]
    /\ UNCHANGED <<graphVars, pipeVars, parserVars, sessVars, context, audioVars, reader, transcript>>

RedisNext == Reach \/ connect \/ _background_reconnect \/ disconnect
SpecRedis == Init /\ [][RedisNext]_vars

\* every attempt of the first connect failed and the cache answers again
AllAttemptsFailed ==
    /\ redis_manager.phase = "returned"
    /\ redis_manager.attempt = max_retries
    /\ redis_manager.reachable

\* C34: from the return of the first connect until disconnect a background
\* task retries the connection, also when every attempt of that connect failed
C34_BackgroundRetries ==
    redis_manager.phase = "returned" /\ redis_manager.attempt = max_retries
        => redis_manager._connection_task

\* ---------------------------------------------------------------------
\* the finally block of handle_connection when the purge raises
\* (src/servers/api/websocket.py:1072-1086)
\* ---------------------------------------------------------------------

\* pipeline.stop gathers its tasks with return_exceptions and does not raise
\* (191-199); redis.clear_session raises the RuntimeError of
\* RedisManager.client when there is no client (redis_client.py:126-127,
\* 285) or the error of a cache that does not answer. Nothing in the finally
\* block catches it: handle_connection ends at line 1081 with the keys in
\* place and lines 1084-1085 are not run
ClosedRaising ==
    /\ handler \in {"stopping", "disconnected"}
    /\ sender \in {"none", "done"}
    /\ should_clear_data
    /\ handler' = "closed"
    /\ UNCHANGED <<is_active, should_clear_data, _active_sessions,
                   _last_client_activity, now, heartbeat, messages_to_send,
                   sender, received, _message_queue, websocket, enqueued,
                   workVars, graphVars, pipeVars, parserVars, sideVars>>

CleanupNext == SessionNext \/ ClosedRaising
SpecCleanup == InitSession /\ [][CleanupNext]_vars

\* C35: when handle_connection has finished, however the connection ended
\* and also when the purge failed during cleanup, the connection's entry is
\* no longer in _active_sessions
C35_EntryRemoved == handler = "closed" => ~_active_sessions

\* no two entities of graph g have the same non-empty normalized label
UniqueLabels(g) ==
    g # None =>
        \A i, j \in 1..Len(g.entities) :
            (/\ i # j
             /\ _normalize_label(g.entities[i].label) # <<>>)
                => _normalize_label(g.entities[i].label)
                       # _normalize_label(g.entities[j].label)

\* the extracted entity x has the normalized label of an entity of the list
ExactlyNamed(x, entities) ==
    /\ _normalize_label(x.label) # <<>>
    /\ \E j \in 1..Len(entities) :
          _normalize_label(entities[j].label) = _normalize_label(x.label)

\* C36: in every graph reached from the empty graph by apply_extraction no
\* two distinct entities have the same non-empty normalized label, label
\* updates included; an extracted label that equals the normalized label of an
\* entity of the graph is matched to that entity before containment or
\* similarity is tried.
C36_NormalizedLabelsUnique ==
    /\ UniqueLabels(local_cache)
    /\ UniqueLabels(redis_graph)
    /\ Returned =>
          \A k \in 1..Len(last.extraction.entities) :
              LET x == last.extraction.entities[k]
                  idx == _find_similar_entity(x, last.pre.entities)
              IN ExactlyNamed(x, last.pre.entities) =>
                    /\ idx # 0
                    /\ _normalize_label(last.pre.entities[idx].label)
                           = _normalize_label(x.label)

\* a call on a graph of several named entities has replaced a label and has
\* matched an extracted label to an entity whose label is written differently
C36_Witness ==
    /\ Returned
    /\ Len(last.post.entities) >= 2
    /\ \A i \in 1..Len(last.post.entities) :
          _normalize_label(last.post.entities[i].label) # <<>>
    /\ last.delta.updated_entities # <<>>
    /\ \E k \in 1..Len(last.extraction.entities) :
          /\ ExactlyNamed(last.extraction.entities[k], last.pre.entities)
          /\ \A j \in 1..Len(last.pre.entities) :
                last.pre.entities[j].label # last.extraction.entities[k].label

\* ---------------------------------------------------------------------
\* get_state outside apply_extraction, step by step
\* (src/servers/api/graph_state.py:34-51; its callers take no lock:
\* get_full_state_for_client, 219-222, called at websocket.py:1037)
\* ---------------------------------------------------------------------

\* line 37 finds no cached state and line 41 sends the load to the cache
get_state_miss ==
    /\ reader.pc = "idle"
    /\ local_cache = None
    /\ reader' = [reader EXCEPT !.pc = "sent"]
    /\ UNCHANGED <<graphVars, pipeVars, parserVars, sessVars, context, audioVars,
                   redis_manager, transcript>>

\* the cache serves the load: what it holds now is the reply
load_served ==
    /\ reader.pc = "sent"
    /\ reader' = [pc |-> "load", data |-> redis_graph]
    /\ UNCHANGED <<graphVars, pipeVars, parserVars, sessVars, context, audioVars,
                   redis_manager, transcript>>

\* the reply reaches the suspended call, lines 42-49: the state built from the
\* reply, or a new empty state, is stored in _local_cache whatever
\* _local_cache holds by now; a new empty state is then saved (49). Followed
\* while no apply_extraction call is inside its critical section
get_state_resume ==
    /\ reader.pc = "load"
    /\ lock = 0
    /\ IF reader.data # None
       THEN /\ local_cache' = reader.data
            /\ reader' = NoReader
       ELSE /\ local_cache' = _create_empty_state(clock)
            /\ reader' = [pc |-> "save", data |-> _create_empty_state(clock)]
    /\ UNCHANGED <<redis_graph, redis_snapshots, lock, pc, arg, pending,
                   uuid_counter, clock, calls, last, held,
                   pipeVars, parserVars, sessVars, context, audioVars, redis_manager, transcript>>

\* _save_state of the new empty state returns (49-50): the dump taken at the
\* call is what the cache holds now
get_state_saved ==
    /\ reader.pc = "save"
    /\ redis_graph' = reader.data
    /\ reader' = NoReader
    /\ UNCHANGED <<local_cache, redis_snapshots, lock, pc, arg, pending,
                   uuid_counter, clock, calls, last, held,
                   pipeVars, parserVars, sessVars, context, audioVars, redis_manager, transcript>>

RaceNext ==
    \/ GraphNext
    \/ get_state_miss
    \/ load_served
    \/ get_state_resume
    \/ get_state_saved
SpecRace == Init /\ [][RaceNext]_vars

\* C37: a get_state call that runs concurrently with apply_extraction never
\* replaces the cached graph with an older one: the version of the cached
\* graph, which get_state returns, never decreases
C37_CacheNeverOlder ==
    [][local_cache # None /\ local_cache' # None
          => local_cache'.version >= local_cache.version]_vars

\* ---------------------------------------------------------------------
\* The text of the NLP worker (src/servers/api/websocket.py:347-433,
\* 493-571), for transcripts in English
\* ---------------------------------------------------------------------

\* the endings of _extract_complete_sentences for lang == "en", lines 537-541
endings ==
    << <<".", " ">>, <<"!", " ">>, <<"?", " ">>,
       <<".", "\n">>, <<"!", "\n">>, <<"?", "\n">> >>

\* str.find, counted from 1; 0 when sub does not occur in s
Find(s, sub) ==
    FirstIn({k \in 1..(Len(s) - Len(sub) + 1) : SubSeq(s, k, k + Len(sub) - 1) = sub})

\* lines 548-570: the loop that cuts `remaining` at the ending found first
\* (of endings found at the same place the first of the list) and keeps a
\* sentence of more than 3 characters with what remains after it
RECURSIVE extract_loop(_, _)
extract_loop(remaining, results) ==
    LET found == {k \in 1..Len(endings) : Find(remaining, endings[k]) # 0}
        best_idx == FirstIn({Find(remaining, endings[k]) : k \in found})
        best == FirstIn({k \in found : Find(remaining, endings[k]) = best_idx})
        cut == best_idx + Len(endings[best]) - 1
        sentence == strip(SubSeq(remaining, 1, cut))
        left == strip(SubSeq(remaining, cut + 1, Len(remaining)))
    IN IF found = {} THEN results
       ELSE extract_loop(left, IF Len(sentence) > 3
                               THEN Append(results, <<sentence, left>>)
                               ELSE results)

_extract_complete_sentences(txt) == extract_loop(txt, <<>>)

\* the transcripts the STT worker passes on
NewTexts ==
    { <<"a", "a">>,
      <<"a", ".">>,
      <<"a", "a", "a", ".">>,
      <<"a", ".", " ", "a", "a", "a", ".">>,
      <<"a", "a", "a", ".", " ", "a", ".">> }

\* transcripts followed
MaxTexts == 3

\* lines 357-367 and 410-433: a text is taken from the text queue, appended
\* to the buffer after a space, the buffer stripped and split; every sentence
\* returned is put on the sentence queue and the buffer becomes what the
\* sentence returned last left
nlp_take(new_text) ==
    /\ Len(transcript.received) < MaxTexts
    /\ LET joined == strip(transcript.text_buffer \o <<" ">> \o new_text)
           sentences == _extract_complete_sentences(joined)
       IN transcript' =
              [received |-> Append(transcript.received, new_text),
               finalized |-> transcript.finalized
                                \o [i \in 1..Len(sentences) |-> sentences[i][1]],
               text_buffer |-> IF sentences = <<>> THEN joined
                               ELSE sentences[Len(sentences)][2]]
    /\ UNCHANGED <<graphVars, pipeVars, parserVars, sessVars, context, audioVars,
                   redis_manager, reader>>

\* lines 374-408: no text for 2.5 s and a buffer of 3 characters or more (the
\* minimum length of English, 50, is above 3): the buffer is put on the
\* sentence queue and emptied
nlp_flush ==
    /\ Len(strip(transcript.text_buffer)) >= 3
    /\ transcript' =
           [transcript EXCEPT
               !.finalized = Append(@, strip(transcript.text_buffer)),
               !.text_buffer = <<>>]
    /\ UNCHANGED <<graphVars, pipeVars, parserVars, sessVars, context, audioVars,
                   redis_manager, reader>>

TextNext == nlp_flush \/ \E new_text \in NewTexts : nlp_take(new_text)
SpecText == Init /\ [][TextNext]_vars

\* the texts of a list one after the other
RECURSIVE Concat(_)
Concat(texts) == IF texts = <<>> THEN <<>> ELSE Head(texts) \o Concat(Tail(texts))

\* a text without its whitespace
Unspaced(txt) == SelectSeq(txt, LAMBDA c : c \notin WhitespaceChars)

\* C38: the NLP worker loses no text: the sentences finalized so far followed
\* by the buffer are, up to whitespace, the transcripts received so far, also
\* when an ending cuts off 3 characters or less ahead of a longer sentence
C38_NoTextLost ==
    Unspaced(Concat(transcript.finalized) \o transcript.text_buffer)
        = Unspaced(Concat(transcript.received))

\* a session with sentences to extract that the client may end, its close,
\* and a get_state call from outside it (the HTTP graph endpoint, or a later
\* connection with the same session id)
InitPurge == Started("sentence")
PurgeNext ==
    \/ _extraction_worker
    \/ \E f \in {g \in ClientFrames : g.type = "END_SESSION"} : Receive(f)
    \/ _message_sender_worker
    \/ Closed
    \/ get_state
SpecPurge == InitPurge /\ [][PurgeNext]_vars

\* C39: once a connection has closed with the purge flag set, a get_state
\* call for its session id returns an empty graph of version 0
C39_PurgedSessionStartsEmpty ==
    [][(handler = "closed" /\ should_clear_data /\ held = NoHeld /\ held' # NoHeld)
          => /\ held'.returned.version = 0
             /\ held'.returned.entities = <<>>
             /\ held'.returned.relations = <<>>]_vars

\* ---------------------------------------------------------------------
\* _extraction_worker when the extraction raises
\* (src/servers/api/websocket.py:720-829, 845-847)
\* ---------------------------------------------------------------------

\* graph_manager.get_state (725, 791), process_chunk_streaming (771) or
\* apply_extraction_with_existing_id_map (809) raises: the handler of the
\* loop logs the error and sleeps 0.1 s (845-847), and the loop goes on with
\* the sentence_buffer that line 721 emptied before the call. Followed until
\* an extraction has succeeded
extraction_raises ==
    /\ handler = "started"
    /\ extractor.pc = "extract"
    /\ calls = 0
    /\ extractor' = [pc |-> "get", batch |-> <<>>]
    /\ UNCHANGED <<_audio_queue, _text_queue, _sentence_queue, stt, nlp,
                   text_buffer, sentence_counter, sentence_buffer, chunks,
                   sequence_counter, dropped>>
    /\ UNCHANGED <<connVars, _message_queue, websocket, enqueued,
                   graphVars, pipeVars, parserVars, sideVars>>

\* the extraction worker of a session with sentences to extract
RaisingNext == _extraction_worker \/ extraction_raises
SpecRaising == InitPurge /\ [][RaisingNext]_vars

\* C40: while the session is active the sentences of a batch are given up
\* only once their extraction has returned, and leaving the extraction
\* counts as exactly one call: a sentence taken is extracted once, and not
\* discarded when the extraction or the graph update raises
C40_BatchExtractedOnce ==
    [][is_active =>
          /\ (extractor.batch # <<>> /\ extractor'.batch # extractor.batch)
                => extractor.pc = "idle"
          /\ (extractor.pc = "extract" /\ extractor'.pc # "extract")
                => /\ calls' = calls + 1
                   /\ extractor'.pc = "idle"]_vars

====
